---- MODULE Spec2Model ----
(***************************************************************************)
(* A model of the plan -> validate -> execute -> judge -> record pipeline  *)
(* of orchestrai (workflow.py, tool_runner.py, eval/judge.py, metrics.py). *)
(*                                                                         *)
(* Text is a sequence of characters (one-character strings).  A word that  *)
(* holds no character json.dumps escapes (a tool name, a field name, a     *)
(* timestamp) is abbreviated to one element.                               *)
(***************************************************************************)
EXTENDS Integers, Sequences, FiniteSets, TLC

VARIABLES
    pc,                   \* where run_orchestration stands
    runs,                 \* number of run_orchestration calls started
    user_goal,            \* its argument
    planner_out,          \* history: what the planner answered
    task_plan,            \* the parsed TaskPlan
    stepIdx,              \* execute_plan_tools: index of the step being walked
    toolIdx,              \* execute_plan_tools: index inside step.tools
    results,              \* execute_plan_tools: the results dict, in insertion order
    invoked,              \* history: the runner.call invocations of this run
    inflight,             \* the runner.call invocations that have not ended yet
    raw_exec,             \* the final answer text
    execution_succeeded,
    execution_errors,
    judgeCalls,           \* history: the llm.invoke calls of judge_run
    ret,                  \* what run_orchestration returned or raised
    synth,                \* history: how executor_crew.kickoff() ended
    fileAtStart,          \* history: the metrics file when the run started
    file,                 \* data/metrics.jsonl, as text
    logged,               \* history: the entries given to MetricsTracker.log
    loaded,               \* the outcome of the last load_all
    stats,                \* the outcome of the last get_stats
    history,              \* the entries list handed to _calculate_trend
    trend,                \* what _calculate_trend returned for it
    input,                \* the argument of a function taken on its own
    output                \* what the function returned for it

runVars == <<pc, runs, user_goal, planner_out, task_plan, stepIdx, toolIdx, results, invoked,
             inflight,
             raw_exec, execution_succeeded, execution_errors, judgeCalls, ret,
             synth, fileAtStart>>
storeVars == <<file, logged, loaded, stats>>
trendVars == <<history, trend>>
textVars == <<input, output>>
vars == <<runVars, storeVars, trendVars, textVars>>

(***************************************************************************)
(* Bounds of the model.                                                    *)
(***************************************************************************)
MaxRuns == 2
MaxSteps == 2
MaxLogged == 3
MaxHistory == 11
MaxOverflow == 3
MaxWords == 3

(***************************************************************************)
(* Characters and text.                                                    *)
(***************************************************************************)
NL == "\n"
BS == "\\"
QT == "\""

Max(a, b) == IF a > b THEN a ELSE b

Range(s) == {s[i] : i \in 1..Len(s)}

\* s[-n:] for n >= 1
PyLast(s, n) == SubSeq(s, Max(1, Len(s) - n + 1), Len(s))

\* s[:n] for n >= 0
PyFirst(s, n) == SubSeq(s, 1, IF n < Len(s) THEN n ELSE Len(s))

IsPrefix(s, t) == Len(s) <= Len(t) /\ SubSeq(t, 1, Len(s)) = s

UpperCase == <<"A", "B", "C", "D", "E", "F", "G", "H", "I", "J", "K", "L", "M",
               "N", "O", "P", "Q", "R", "S", "T", "U", "V", "W", "X", "Y", "Z">>
LowerCase == <<"a", "b", "c", "d", "e", "f", "g", "h", "i", "j", "k", "l", "m",
               "n", "o", "p", "q", "r", "s", "t", "u", "v", "w", "x", "y", "z">>

LowerChar(c) ==
    IF c \in Range(UpperCase)
    THEN LowerCase[CHOOSE i \in 1..26 : UpperCase[i] = c]
    ELSE c

\* str.lower()
Lower(s) == [i \in 1..Len(s) |-> LowerChar(s[i])]

\* word in text
Contains(text, word) ==
    \E i \in 0..(Len(text) - Len(word)) : SubSeq(text, i + 1, i + Len(word)) = word

(***************************************************************************)
(* metrics.py: infer_goal_type                                             *)
(***************************************************************************)
WeatherWords == { <<"w","e","a","t","h","e","r">>,
                  <<"t","e","m","p","e","r","a","t","u","r","e">>,
                  <<"f","o","r","e","c","a","s","t">> }
SearchWords == { <<"s","e","a","r","c","h">>, <<"f","i","n","d">>, <<"l","o","o","k">> }
GithubWords == { <<"i","s","s","u","e">>, <<"r","e","p","o">>,
                 <<"g","i","t","h","u","b">>, <<"p","u","l","l">> }

infer_goal_type_search_first(goal) ==
    LET goal_lower == Lower(goal) IN
    IF \E w \in SearchWords : Contains(goal_lower, w) THEN <<"search">>
    ELSE IF \E w \in WeatherWords : Contains(goal_lower, w) THEN <<"weather">>
    ELSE IF \E w \in GithubWords : Contains(goal_lower, w) THEN <<"github">>
    ELSE <<"other">>

\* infer_goal_type(goal)
infer_goal_type(goal) ==
    LET goal_lower == Lower(goal) IN
    IF \E w \in WeatherWords : Contains(goal_lower, w) THEN <<"weather">>
    ELSE IF \E w \in SearchWords : Contains(goal_lower, w) THEN <<"search">>
    ELSE IF \E w \in GithubWords : Contains(goal_lower, w) THEN <<"github">>
    ELSE <<"other">>

(***************************************************************************)
(* json.dumps(asdict(entry)): the text of one MetricEntry.  Whitespace     *)
(* after "," and ":" is left out (json.loads skips it).                    *)
(***************************************************************************)
Digits == <<"0", "1", "2", "3", "4", "5", "6", "7", "8", "9">>

EscapeCharNoNewline(ch) ==
    IF ch = QT THEN <<BS, QT>>
    ELSE IF ch = BS THEN <<BS, BS>>
    ELSE <<ch>>

\* the escapes json.dumps puts inside a string
EscapeChar(ch) ==
    IF ch = QT THEN <<BS, QT>>
    ELSE IF ch = BS THEN <<BS, BS>>
    ELSE IF ch = NL THEN <<BS, "n">>
    ELSE <<ch>>

RECURSIVE JsonChars(_)
JsonChars(s) == IF s = <<>> THEN <<>> ELSE EscapeChar(Head(s)) \o JsonChars(Tail(s))

JsonStr(s) == <<QT>> \o JsonChars(s) \o <<QT>>

RECURSIVE JsonStrItems(_)
JsonStrItems(l) ==
    IF l = <<>> THEN <<>>
    ELSE IF Len(l) = 1 THEN JsonStr(l[1])
    ELSE JsonStr(l[1]) \o <<",">> \o JsonStrItems(Tail(l))

JsonStrList(l) == <<"[">> \o JsonStrItems(l) \o <<"]">>

RECURSIVE NatText(_)
NatText(n) == IF n < 10 THEN <<Digits[n + 1]>> ELSE NatText(n \div 10) \o <<Digits[(n % 10) + 1]>>

JsonNum(n) == IF n < 0 THEN <<"-">> \o NatText(0 - n) ELSE NatText(n)

JsonBool(b) == IF b THEN <<"true">> ELSE <<"false">>

JsonKey(k) == JsonStr(<<k>>) \o <<":">>

JsonDumps(e) ==
    <<"{">>
    \o JsonKey("timestamp") \o JsonStr(e.timestamp) \o <<",">>
    \o JsonKey("goal") \o JsonStr(e.goal) \o <<",">>
    \o JsonKey("goal_type") \o JsonStr(e.goal_type) \o <<",">>
    \o JsonKey("success_score") \o JsonNum(e.success_score) \o <<",">>
    \o JsonKey("plan_score") \o JsonNum(e.plan_score) \o <<",">>
    \o JsonKey("reasoning_score") \o JsonNum(e.reasoning_score) \o <<",">>
    \o JsonKey("execution_time_seconds") \o JsonNum(e.execution_time_seconds) \o <<",">>
    \o JsonKey("completed") \o JsonBool(e.completed) \o <<",">>
    \o JsonKey("errors") \o JsonStrList(e.errors) \o <<",">>
    \o JsonKey("tools_used") \o JsonStrList(e.tools_used)
    \o <<"}">>

LogWriteTruncating(f, entry) == JsonDumps(entry) \o <<NL>>

\* MetricsTracker.log: f.write(json.dumps(asdict(entry)) + "\n") in append mode
LogWrite(f, entry) == f \o JsonDumps(entry) \o <<NL>>

(***************************************************************************)
(* json.loads(line) and the MetricEntry constructor.  A parser returns             *)
(* [ok, val, next]: whether it read a value at position i, the value and   *)
(* the position after it.                                                  *)
(***************************************************************************)
ParseFail == [ok |-> FALSE, val |-> <<>>, next |-> 0]

At(s, i, tok) == i >= 1 /\ i <= Len(s) /\ s[i] = tok

RECURSIVE ReadStr(_, _, _)
ReadStr(s, i, acc) ==
    IF i > Len(s) THEN ParseFail
    ELSE IF s[i] = QT THEN [ok |-> TRUE, val |-> acc, next |-> i + 1]
    ELSE IF s[i] = NL THEN ParseFail
    ELSE IF s[i] = BS
         THEN IF At(s, i + 1, "n") THEN ReadStr(s, i + 2, Append(acc, NL))
              ELSE IF At(s, i + 1, QT) \/ At(s, i + 1, BS)
                   THEN ReadStr(s, i + 2, Append(acc, s[i + 1]))
              ELSE ParseFail
    ELSE ReadStr(s, i + 1, Append(acc, s[i]))

ParseStr(s, i) == IF At(s, i, QT) THEN ReadStr(s, i + 1, <<>>) ELSE ParseFail

RECURSIVE ReadStrItems(_, _, _)
ReadStrItems(s, i, acc) ==
    LET r == ParseStr(s, i) IN
    IF ~r.ok THEN ParseFail
    ELSE IF At(s, r.next, ",") THEN ReadStrItems(s, r.next + 1, Append(acc, r.val))
    ELSE IF At(s, r.next, "]")
         THEN [ok |-> TRUE, val |-> Append(acc, r.val), next |-> r.next + 1]
    ELSE ParseFail

ParseStrList(s, i) ==
    IF ~At(s, i, "[") THEN ParseFail
    ELSE IF At(s, i + 1, "]") THEN [ok |-> TRUE, val |-> <<>>, next |-> i + 2]
    ELSE ReadStrItems(s, i + 1, <<>>)

ParseNum(s, i) ==
    IF i >= 1 /\ i <= Len(s) /\ s[i] \in Range(Digits)
    THEN [ok |-> TRUE, val |-> (CHOOSE d \in 1..10 : Digits[d] = s[i]) - 1, next |-> i + 1]
    ELSE ParseFail

ParseBool(s, i) ==
    IF At(s, i, "true") THEN [ok |-> TRUE, val |-> TRUE, next |-> i + 1]
    ELSE IF At(s, i, "false") THEN [ok |-> TRUE, val |-> FALSE, next |-> i + 1]
    ELSE ParseFail

IsSpace(c) == c \in {" ", NL, "\t", "\r"}

\* line.strip() is not empty
NotBlank(line) == \E i \in 1..Len(line) : ~IsSpace(line[i])

\* the fields of MetricEntry in the order asdict yields them
EntryFields ==
    << [key |-> "timestamp", type |-> "str"], [key |-> "goal", type |-> "str"],
       [key |-> "goal_type", type |-> "str"], [key |-> "success_score", type |-> "num"],
       [key |-> "plan_score", type |-> "num"], [key |-> "reasoning_score", type |-> "num"],
       [key |-> "execution_time_seconds", type |-> "num"],
       [key |-> "completed", type |-> "bool"], [key |-> "errors", type |-> "list"],
       [key |-> "tools_used", type |-> "list"] >>

\* json.loads reads the value that stands at position i, whatever the field it
\* belongs to: neither it nor the constructor of the dataclass looks at the
\* annotation of the field
ParseValue(s, i) ==
    IF At(s, i, QT) THEN ParseStr(s, i)
    ELSE IF At(s, i, "[") THEN ParseStrList(s, i)
    ELSE IF At(s, i, "true") \/ At(s, i, "false") THEN ParseBool(s, i)
    ELSE ParseNum(s, i)

\* the members "k": value of the object from position i on, field k first; each
\* value read is bound through a one-element set, which evaluates it once
RECURSIVE ParseMembers(_, _, _, _)
ParseMembers(line, i, k, acc) ==
    IF k > Len(EntryFields)
    THEN IF \E n \in i..Len(line) : ~IsSpace(line[n])
         THEN ParseFail
         ELSE [ok |-> TRUE, val |-> acc, next |-> Len(line) + 1]
    ELSE LET key == JsonKey(EntryFields[k].key)
             sep == IF k = Len(EntryFields) THEN "}" ELSE ","
         IN IF i + Len(key) - 1 > Len(line) \/ SubSeq(line, i, i + Len(key) - 1) # key
            THEN ParseFail
            ELSE CHOOSE out \in
                   { IF r.ok /\ At(line, r.next, sep)
                     THEN ParseMembers(line, r.next + 1, k + 1, Append(acc, r.val))
                     ELSE ParseFail
                     : r \in {ParseValue(line, i + Len(key))} } : TRUE

\* json.loads(line) and the MetricEntry constructor on its members
ParseEntry(line) ==
    IF ~At(line, 1, "{") THEN ParseFail
    ELSE CHOOSE out \in
           { IF ~m.ok THEN ParseFail
             ELSE [ok |-> TRUE,
                   val |-> [timestamp |-> m.val[1], goal |-> m.val[2],
                            goal_type |-> m.val[3], success_score |-> m.val[4],
                            plan_score |-> m.val[5], reasoning_score |-> m.val[6],
                            execution_time_seconds |-> m.val[7], completed |-> m.val[8],
                            errors |-> m.val[9], tools_used |-> m.val[10]],
                   next |-> m.next]
             : m \in {ParseMembers(line, 2, 1, <<>>)} } : TRUE

\* for line in f: the lines of the text, each with its line break (the last
\* one may have none)
LineEnds(f) ==
    {i \in 1..Len(f) : f[i] = NL} \cup (IF f # <<>> /\ f[Len(f)] # NL THEN {Len(f)} ELSE {})

LinesBy(f, ends) ==
    LET EndOf(k) == CHOOSE e \in ends : Cardinality({x \in ends : x <= e}) = k
        StartOf(k) == IF k = 1 THEN 1 ELSE EndOf(k - 1) + 1
    IN [k \in 1..Cardinality(ends) |-> SubSeq(f, StartOf(k), EndOf(k))]

SplitLines(f) == CHOOSE ls \in {LinesBy(f, ends) : ends \in {LineEnds(f)}} : TRUE

RECURSIVE ParseLinesSkipping(_, _)
ParseLinesSkipping(lines, acc) ==
    IF lines = <<>> THEN [ok |-> TRUE, entries |-> acc]
    ELSE IF ~NotBlank(Head(lines)) THEN ParseLinesSkipping(Tail(lines), acc)
    ELSE CHOOSE out \in
           { IF r.ok THEN ParseLinesSkipping(Tail(lines), Append(acc, r.val))
             ELSE ParseLinesSkipping(Tail(lines), acc)
             : r \in {ParseEntry(Head(lines))} } : TRUE

RECURSIVE ParseLines(_, _)
ParseLines(lines, acc) ==
    IF lines = <<>> THEN [ok |-> TRUE, entries |-> acc]
    ELSE IF ~NotBlank(Head(lines)) THEN ParseLines(Tail(lines), acc)
    ELSE CHOOSE out \in
           { IF r.ok THEN ParseLines(Tail(lines), Append(acc, r.val))
             ELSE [ok |-> FALSE, entries |-> <<>>]
             : r \in {ParseEntry(Head(lines))} } : TRUE

\* MetricsTracker.load_all: ok = FALSE stands for the exception of json.loads or
\* the MetricEntry constructor
load_all(f) == CHOOSE out \in {ParseLines(ls, <<>>) : ls \in {SplitLines(f)}} : TRUE

(***************************************************************************)
(* metrics.py: _calculate_trend, _goal_type_breakdown, get_stats           *)
(***************************************************************************)
TrendWindow == 5

RECURSIVE SumSuccess(_)
SumSuccess(es) == IF es = <<>> THEN 0 ELSE Head(es).success_score + SumSuccess(Tail(es))

calculate_trend_whole_history(es, window) ==
    IF Len(es) < window * 2 THEN "insufficient_data"
    ELSE LET recent == PyLast(es, window)
             previous == SubSeq(es, 1, Len(es) - window)
             diffNum == SumSuccess(recent) * Len(previous) - SumSuccess(previous) * Len(recent)
             diffDen == Len(recent) * Len(previous)
         IN IF 2 * diffNum > diffDen THEN "improving"
            ELSE IF 2 * diffNum < 0 - diffDen THEN "declining"
            ELSE "stable"

\* statistics.mean is the sum over the length: recent_avg - previous_avg is
\* diffNum / diffDen, compared with 0.5 and -0.5 without rounding.
calculate_trend(es, window) ==
    IF Len(es) < window * 2 THEN "insufficient_data"
    ELSE LET recent == PyLast(es, window)
             previous == SubSeq(es, Len(es) - window * 2 + 1, Len(es) - window)
             diffNum == SumSuccess(recent) * Len(previous) - SumSuccess(previous) * Len(recent)
             diffDen == Len(recent) * Len(previous)
         IN IF 2 * diffNum > diffDen THEN "improving"
            ELSE IF 2 * diffNum < 0 - diffDen THEN "declining"
            ELSE "stable"

RECURSIVE SumSeq(_)
SumSeq(ns) == IF ns = <<>> THEN 0 ELSE Head(ns) + SumSeq(Tail(ns))

goal_type_breakdown(es) ==
    [t \in {es[i].goal_type : i \in 1..Len(es)} |->
        Cardinality({i \in 1..Len(es) : es[i].goal_type = t})]

\* last_n: int = None
NoLastN == [given |-> FALSE, n |-> 0]
LastN(n) == [given |-> TRUE, n |-> n]

\* s[start:] for any integer start
PyFrom(s, start) ==
    SubSeq(s, (IF start < 0 THEN Max(Len(s) + start, 0)
               ELSE IF start > Len(s) THEN Len(s) ELSE start) + 1, Len(s))

StatsOver(es) ==
    LET Col(F(_)) == SumSeq([i \in 1..Len(es) |-> F(es[i])])
        Succ(e) == e.success_score
        PlanQ(e) == e.plan_score
        Reas(e) == e.reasoning_score
        Time(e) == e.execution_time_seconds
        Done(e) == IF e.completed THEN 1 ELSE 0
    IN IF es = <<>> THEN [error |-> "No metrics available"]
       ELSE [total_runs |-> Len(es),
             success_rate |-> <<Col(Done) * 100, Len(es)>>,
             avg_success_score |-> <<Col(Succ), Len(es)>>,
             avg_plan_score |-> <<Col(PlanQ), Len(es)>>,
             avg_reasoning_score |-> <<Col(Reas), Len(es)>>,
             avg_execution_time |-> <<Col(Time), Len(es)>>,
             goal_type_breakdown |-> goal_type_breakdown(es),
             recent_trend |-> calculate_trend(es, TrendWindow)]

get_stats_of_first(all, last_n) ==
    StatsOver(IF last_n.given /\ last_n.n # 0 THEN PyFirst(all, last_n.n) ELSE all)

\* get_stats over the loaded entries: `if last_n: entries = entries[-last_n:]`,
\* then the aggregates; a mean is the pair <<sum, count>>
get_stats_of(all, last_n) ==
    StatsOver(IF last_n.given /\ last_n.n # 0 THEN PyFrom(all, 0 - last_n.n) ELSE all)

NotYet == [done |-> FALSE]

NoRet == [kind |-> "none"]


(***************************************************************************)
(* The environment: the loaded tools and what the planner, the tools, the  *)
(* executor and the judge may answer.                                      *)
(***************************************************************************)
LoadedTools == {"get_weather", "create_issue", "tavily_search"}

\* mcp_tools.get_tool_names(tools), as a set
get_tool_names == LoadedTools

Goals == { <<"n","y","c"," ","w","e","a","t","h","e","r">> }

\* the tools lists a planner step may carry
StepToolLists ==
    { <<>>, <<"create_issue", "get_weather">>, <<"get_weather", "get_weather">>,
      <<"browser">>, <<"get_weather", "browser">>, <<"shell", "browser">> }

StepSeqs(n) == {[i \in 1..n |-> [step_id |-> i, tools |-> tl[i]]] : tl \in [1..n -> StepToolLists]}

\* planner_crew.kickoff(): text that is no JSON, or a JSON plan with 0..MaxSteps steps
PlannerOutputs ==
    {[json |-> FALSE, steps |-> <<>>]}
    \cup {[json |-> TRUE, steps |-> s] : s \in UNION {StepSeqs(n) : n \in 0..MaxSteps}}

\* tool.ainvoke(args): a result text, or an exception with its message
ToolOutcomes == { [ok |-> TRUE, text |-> <<"d","a","t","a">>],
                  [ok |-> FALSE, text |-> <<"b","o","o","m">>] }

\* executor_crew.kickoff(): the answer, or an exception with its message
SynthOutcomes == { [ok |-> TRUE, text |-> <<"a","n","s","w","e","r">>],
                   [ok |-> FALSE, text |-> <<"d","o","w","n">>] }

\* a JSON number: num / den
JsonInt(n) == [num |-> n, den |-> 1]
JsonHalves(n) == [num |-> n, den |-> 2]

JudgeText(json, success, plan_quality, reasoning_quality) ==
    [json |-> json, success |-> success, plan_quality |-> plan_quality,
     reasoning_quality |-> reasoning_quality]

\* llm.invoke(prompt).content: prose; JSON with a score above 5; JSON with a
\* fraction (4.5) and a score below 0; JSON with the three scores in range
JudgeResponses ==
    { JudgeText(FALSE, JsonInt(0), JsonInt(0), JsonInt(0)),
      JudgeText(TRUE, JsonInt(6), JsonInt(4), JsonInt(3)),
      JudgeText(TRUE, JsonInt(4), JsonHalves(9), JsonInt(0 - 1)),
      JudgeText(TRUE, JsonInt(5), JsonInt(4), JsonInt(3)) }

\* time.time() - start_time, and datetime.now().isoformat()
ExecTimes == {2}
Timestamps == { <<"2026-01-01T00:00:00">> }

(***************************************************************************)
(* schemas.py, workflow.py: plan parsing and the tool allow-list gate      *)
(***************************************************************************)
NoPlan == [steps |-> <<>>]

NoOutput == [json |-> FALSE, steps |-> <<>>]

\* TaskPlan.model_validate_json: JSON with at least one step (min_length=1)
ValidTaskPlan(out) == out.json /\ Len(out.steps) >= 1

NoInvalid == [found |-> FALSE, tool |-> "", step_id |-> 0]

RECURSIVE FirstInvalid(_, _, _, _)
FirstInvalid(steps, s, t, allowed) ==
    IF s > Len(steps) THEN NoInvalid
    ELSE IF t > Len(steps[s].tools) THEN FirstInvalid(steps, s + 1, 1, allowed)
    ELSE IF steps[s].tools[t] \notin allowed
         THEN [found |-> TRUE, tool |-> steps[s].tools[t], step_id |-> steps[s].step_id]
    ELSE FirstInvalid(steps, s, t + 1, allowed)

RECURSIVE LastInvalid(_, _, _, _)
LastInvalid(steps, s, t, allowed) ==
    IF s < 1 THEN NoInvalid
    ELSE IF t < 1
         THEN LastInvalid(steps, s - 1, IF s > 1 THEN Len(steps[s - 1].tools) ELSE 0, allowed)
    ELSE IF steps[s].tools[t] \notin allowed
         THEN [found |-> TRUE, tool |-> steps[s].tools[t], step_id |-> steps[s].step_id]
    ELSE LastInvalid(steps, s, t - 1, allowed)

validate_tools_reporting_last(plan, allowed) ==
    LastInvalid(plan.steps, Len(plan.steps), Len(plan.steps[Len(plan.steps)].tools), allowed)

validate_tools_requiring_tools(plan, allowed) ==
    IF \E i \in 1..Len(plan.steps) : plan.steps[i].tools = <<>>
    THEN [found |-> TRUE, tool |-> "", step_id |-> 0]
    ELSE FirstInvalid(plan.steps, 1, 1, allowed)

validate_tools_first_step_only(plan, allowed) ==
    FirstInvalid(<<plan.steps[1]>>, 1, 1, allowed)

\* the loop that raises on the first tool outside the allow-list
validate_tools(plan, allowed) == FirstInvalid(plan.steps, 1, 1, allowed)

PlanTools(plan) == UNION {Range(plan.steps[i].tools) : i \in 1..Len(plan.steps)}

(***************************************************************************)
(* workflow.py: extract_city.  The two re.search patterns are matched the  *)
(* way the regex engine matches them: leftmost start, greedy letter and    *)
(* whitespace runs, the lazy word repetition of pattern 1 stopping at the  *)
(* first word after which its ending matches.                              *)
(***************************************************************************)
IsLowerLetter(c) == c \in Range(LowerCase)
IsUpperLetter(c) == c \in Range(UpperCase)
NotSpace(c) == ~IsSpace(c)

\* \w
IsWordChar(c) == IsLowerLetter(c) \/ IsUpperLetter(c) \/ c \in Range(Digits) \/ c = "_"

\* \b before position i
WordBoundary(s, i) ==
    (i > 1 /\ IsWordChar(s[i - 1])) # (i <= Len(s) /\ IsWordChar(s[i]))

\* the end of the longest run of characters with P from position i on: the
\* first position not in it
RunOf(P(_), s, i) ==
    CHOOSE j \in i..(Len(s) + 1) :
        /\ \A k \in i..(j - 1) : P(s[k])
        /\ j = Len(s) + 1 \/ ~P(s[j])

\* [a-z]+ or [a-z]* from position i
LettersEnd(s, i) == RunOf(IsLowerLetter, s, i)

\* \s+ or \s* from position i
SpacesEnd(s, i) == RunOf(IsSpace, s, i)

\* the end of the word of str.split() that starts at position i
WordEnd(s, i) == RunOf(NotSpace, s, i)

StartsWith(s, i, w) == i + Len(w) - 1 <= Len(s) /\ SubSeq(s, i, i + Len(w) - 1) = w

WeatherWord == <<"w","e","a","t","h","e","r">>

\* \s+weather at position p
SpaceThenWeather(s, p) ==
    LET q == SpacesEnd(s, p) IN q > p /\ StartsWith(s, q, WeatherWord)

\* (?:\s+weather|$|\?|,) at position p
Pattern1Ending(s, p) ==
    \/ SpaceThenWeather(s, p)
    \/ p = Len(s) + 1
    \/ p = Len(s) /\ s[p] = NL
    \/ p <= Len(s) /\ s[p] \in {"?", ","}

NoMatch == [found |-> FALSE, from |-> 0, to |-> 0]

\* ([a-z]+(?:\s+[a-z]+)*?) then the ending, the group starting at g and its
\* next word at p
RECURSIVE Pattern1Words(_, _, _)
Pattern1Words(s, g, p) ==
    LET e == LettersEnd(s, p)
        n == SpacesEnd(s, e)
    IN IF e = p THEN NoMatch
       ELSE IF Pattern1Ending(s, e) THEN [found |-> TRUE, from |-> g, to |-> e - 1]
       ELSE IF n > e THEN Pattern1Words(s, g, n)
       ELSE NoMatch

\* \b(?:in|for)\s+ at position i, then the group
Pattern1At(s, i) ==
    LET p == IF StartsWith(s, i, <<"i","n">>) THEN i + 2
             ELSE IF StartsWith(s, i, <<"f","o","r">>) THEN i + 3
             ELSE 0
        q == SpacesEnd(s, p)
    IN IF p = 0 \/ ~WordBoundary(s, i) \/ q = p THEN NoMatch
       ELSE Pattern1Words(s, q, q)

\* \b([a-z]+(?:\s+[a-z]+)?)\s+weather at position i
Pattern2At(s, i) ==
    LET e1 == LettersEnd(s, i)
        w == SpacesEnd(s, e1)
        e2 == LettersEnd(s, w)
    IN IF e1 = i \/ ~WordBoundary(s, i) THEN NoMatch
       ELSE IF w > e1 /\ e2 > w /\ SpaceThenWeather(s, e2)
            THEN [found |-> TRUE, from |-> i, to |-> e2 - 1]
       ELSE IF SpaceThenWeather(s, e1) THEN [found |-> TRUE, from |-> i, to |-> e1 - 1]
       ELSE NoMatch

\* re.search: the match at the leftmost position that has one
Leftmost(MatchAt(_, _), s) ==
    LET starts == {i \in 1..Len(s) : MatchAt(s, i).found}
    IN IF starts = {} THEN NoMatch
       ELSE MatchAt(s, CHOOSE i \in starts : \A j \in starts : i <= j)

\* re.search(r'\b(?:in|for)\s+([a-z]+(?:\s+[a-z]+)*?)(?:\s+weather|$|\?|,)', text_lower)
SearchPattern1(s) == Leftmost(Pattern1At, s)

\* re.search(r'\b([a-z]+(?:\s+[a-z]+)?)\s+weather', text_lower)
SearchPattern2(s) == Leftmost(Pattern2At, s)

UpperChar(c) ==
    IF c \in Range(LowerCase)
    THEN UpperCase[CHOOSE i \in 1..26 : LowerCase[i] = c]
    ELSE c

\* str.title(): a letter after a non-letter in upper case, the others in lower
Title(s) ==
    [i \in 1..Len(s) |->
        IF i = 1 \/ ~(IsLowerLetter(s[i - 1]) \/ IsUpperLetter(s[i - 1]))
        THEN UpperChar(s[i]) ELSE LowerChar(s[i])]

\* str.strip()
Strip(s) ==
    IF \A i \in 1..Len(s) : IsSpace(s[i]) THEN <<>>
    ELSE SubSeq(s, CHOOSE i \in 1..Len(s) : ~IsSpace(s[i]) /\ \A k \in 1..(i - 1) : IsSpace(s[k]),
                   CHOOSE j \in 1..Len(s) : ~IsSpace(s[j]) /\ \A k \in (j + 1)..Len(s) : IsSpace(s[k]))

\* the loop over text.split(): the first word of more than two characters that
\* starts with a capital, with the next word when that starts with a capital too
CapitalizedWords(text) ==
    LET starts == {i \in 1..Len(text) :
                      /\ ~IsSpace(text[i])
                      /\ i = 1 \/ IsSpace(text[i - 1])
                      /\ IsUpperLetter(text[i])
                      /\ WordEnd(text, i) - i > 2}
    IN IF starts = {} THEN NoMatch
       ELSE LET i == CHOOSE k \in starts : \A j \in starts : k <= j
                e == WordEnd(text, i)
                n == SpacesEnd(text, e)
            IN IF n <= Len(text) /\ IsUpperLetter(text[n])
               THEN [found |-> TRUE, from |-> i, to |-> e - 1,
                     next |-> SubSeq(text, n, WordEnd(text, n) - 1)]
               ELSE [found |-> TRUE, from |-> i, to |-> e - 1, next |-> <<>>]

NewYork == <<"N","e","w"," ","Y","o","r","k">>
SanFrancisco == <<"S","a","n"," ","F","r","a","n","c","i","s","c","o">>
LosAngeles == <<"L","o","s"," ","A","n","g","e","l","e","s">>

\* city_map and the default
CityOfAbbreviation(text_lower) ==
    IF Contains(text_lower, <<"n","y","c">>) THEN NewYork
    ELSE IF Contains(text_lower, <<"s","f">>) THEN SanFrancisco
    ELSE IF Contains(text_lower, <<"l","a">>) THEN LosAngeles
    ELSE NewYork

\* extract_city(text)
extract_city(text) ==
    LET text_lower == Lower(text)
        m1 == SearchPattern1(text_lower)
        m2 == SearchPattern2(text_lower)
        m3 == CapitalizedWords(text)
    IN IF m1.found THEN Title(Strip(SubSeq(text_lower, m1.from, m1.to)))
       ELSE IF m2.found THEN Title(Strip(SubSeq(text_lower, m2.from, m2.to)))
       ELSE IF m3.found
            THEN IF m3.next # <<>>
                 THEN SubSeq(text, m3.from, m3.to) \o <<" ">> \o m3.next
                 ELSE SubSeq(text, m3.from, m3.to)
       ELSE CityOfAbbreviation(text_lower)

(***************************************************************************)
(* workflow.py: the sanitizing of the planner's text and its parse.  A     *)
(* plan text is "{", its members as one element, "}".                      *)
(***************************************************************************)
\* the backtick, a character that a string of TLA+ cannot hold on its own
Tick == "BACKTICK"

Fence == <<Tick, Tick, Tick>>

\* str.strip of the backticks
StripTicks(s) ==
    IF \A i \in 1..Len(s) : s[i] = Tick THEN <<>>
    ELSE SubSeq(s, CHOOSE i \in 1..Len(s) : s[i] # Tick /\ \A k \in 1..(i - 1) : s[k] = Tick,
                   CHOOSE j \in 1..Len(s) : s[j] # Tick /\ \A k \in (j + 1)..Len(s) : s[k] = Tick)

sanitize_keeping_tag(raw) ==
    IF StartsWith(Strip(raw), 1, Fence) THEN Strip(StripTicks(Strip(raw))) ELSE Strip(raw)

\* raw_plan = raw_plan.strip(); if it starts with the fence, the backticks at
\* both ends go, and then a leading "json" in any letter case
sanitize(raw) ==
    LET stripped == Strip(raw)
        inner == Strip(StripTicks(stripped))
    IN IF ~StartsWith(stripped, 1, Fence) THEN stripped
       ELSE IF StartsWith(Lower(inner), 1, <<"j", "s", "o", "n">>)
            THEN Strip(SubSeq(inner, 5, Len(inner)))
       ELSE inner

\* the plan texts of the model and the TaskPlan each one is parsed to
PlanJsons ==
    LET Text(members) == <<"{", members, "}">>
        Step(id, tools) == [step_id |-> id, tools |-> tools]
    IN { [text |-> Text("\"goal\":\"g\",\"steps\":[{\"step_id\":1,\"action\":\"a\",\"tools\":[\"get_weather\"],\"success_criteria\":\"c\"}]"),
          plan |-> [steps |-> << Step(1, <<"get_weather">>) >> ]],
         [text |-> Text("\"goal\":\"g\",\"steps\":[{\"step_id\":7,\"action\":\"a\",\"success_criteria\":\"c\"}],\"risks\":[]"),
          plan |-> [steps |-> << Step(7, <<>>) >> ]] }

\* TaskPlan.model_validate_json(raw_plan): the plan of a plan text, which white
\* space may surround, and a ValidationError for any other text
model_validate_json(text) ==
    IF \E p \in PlanJsons : p.text = Strip(text)
    THEN [ok |-> TRUE, plan |-> (CHOOSE p \in PlanJsons : p.text = Strip(text)).plan]
    ELSE [ok |-> FALSE, plan |-> NoPlan]

(***************************************************************************)
(* workflow.py: execute_plan_tools, tool_runner.py: ToolRunner.call        *)
(***************************************************************************)
Keys(d) == {d[i].name : i \in 1..Len(d)}

DictGet(d, k) == d[CHOOSE i \in 1..Len(d) : d[i].name = k].value

\* d[k] = v on a dict that keeps insertion order
DictSet(d, k, v) ==
    IF k \in Keys(d)
    THEN [i \in 1..Len(d) |-> IF d[i].name = k THEN [name |-> k, value |-> v] ELSE d[i]]
    ELSE Append(d, [name |-> k, value |-> v])

RECURSIVE NextToolAnyway(_, _, _, _)
NextToolAnyway(steps, s, t, res) ==
    IF s > Len(steps) THEN [s |-> s, t |-> 1]
    ELSE IF t > Len(steps[s].tools) THEN NextToolAnyway(steps, s + 1, 1, res)
    ELSE [s |-> s, t |-> t]

\* the two for loops from position (s, t) on: the next tool that is not in
\* results yet, or s = Len(steps) + 1 when the loops end
RECURSIVE NextTool(_, _, _, _)
NextTool(steps, s, t, res) ==
    IF s > Len(steps) THEN [s |-> s, t |-> 1]
    ELSE IF t > Len(steps[s].tools) THEN NextTool(steps, s + 1, 1, res)
    ELSE IF steps[s].tools[t] \in Keys(res) THEN NextTool(steps, s, t + 1, res)
    ELSE [s |-> s, t |-> t]

results_of_earlier_call(res) == res

\* results = {}: every call of execute_plan_tools makes its own dict, which is
\* gone when the run that holds it is over
new_results(res) == <<>>

call_not_awaited(plan, s, t, res) ==
    LET pos == NextTool(plan.steps, s, t + 1, res)
    IN [pc |-> IF pos.s > Len(plan.steps) THEN "synth" ELSE "tools",
        s |-> pos.s, t |-> pos.t]

\* await: the coroutine stays at the call until the call has ended
call_awaited(plan, s, t, res) == [pc |-> "awaiting", s |-> s, t |-> t]

\* ToolRunner.call: KeyError for a name that is not loaded, else what the tool does
RunnerCall(name, outcome) ==
    IF name \notin LoadedTools
    THEN [ok |-> FALSE, text |-> <<"Tool '", name, "' not found.">>]
    ELSE outcome

(***************************************************************************)
(* execute_plan_tools: the arguments of runner.call.  The fixed texts of   *)
(* the issue body are one element each.                                    *)
(***************************************************************************)
\* the body's `if len(result_str) > 2000` branch
BodyResult(text) ==
    IF Len(text) > 2000 THEN SubSeq(text, 1, 2000) \o <<NL, NL, "... (truncated)">> ELSE text

RECURSIVE BodySections(_)
BodySections(res) ==
    IF res = <<>> THEN <<>>
    ELSE (IF Head(res).name = "create_issue" THEN <<>>
          ELSE <<"### Results from ", Tick, Head(res).name, Tick, NL, NL>>
               \o Fence \o <<NL>> \o BodyResult(Head(res).value) \o <<NL>> \o Fence \o <<NL, NL>>)
         \o BodySections(Tail(res))

IssueBodyWithoutResults(res, goal) ==
    <<"**Issue created via MCP Navigator**", NL, NL, "**Request:** ">> \o goal

\* the body from all the results stored so far, in the order of the dict
IssueBody(res, goal) ==
    IF res # <<>>
    THEN <<"## Automated Issue Summary", NL, NL, "**Generated from:** ">> \o goal
         \o <<NL, NL, "---", NL, NL>> \o BodySections(res)
    ELSE <<"**Issue created via MCP Navigator**", NL, NL, "**Request:** ">> \o goal

\* a goal in which none of the patterns for the repository and the title of an
\* issue finds anything: no "/", no quote, none of the words issue, titled,
\* called, named, repo, and no and / then at its start
PlainGoal(goal) ==
    /\ Range(goal) \cap {"/", QT, "'"} = {}
    /\ \A w \in { <<"i","s","s","u","e">>, <<"t","i","t","l","e","d">>, <<"c","a","l","l","e","d">>,
                 <<"n","a","m","e","d">>, <<"r","e","p","o">> } : ~Contains(Lower(goal), w)
    /\ ~StartsWith(Lower(Strip(goal)), 1, <<"a","n","d">>)
    /\ ~StartsWith(Lower(Strip(goal)), 1, <<"t","h","e","n">>)

\* owner, repo and title of the issue for a plain goal: the default repository
\* and the goal, stripped; the model holds no other goal
IssueTarget(goal) ==
    IF PlainGoal(goal)
    THEN [owner |-> "deepmehta27", repo |-> "mcp-navigator-test",
          title |-> IF Strip(goal) = <<>> THEN goal ELSE Strip(goal)]
    ELSE [owner |-> "", repo |-> "", title |-> <<>>]

ToolArgsFromStep(step, tool_name, goal, res) ==
    [tool |-> tool_name, text |-> step.action]

\* the branches of the loop body for the tools of the model; step is the loop
\* variable, which no branch reads
ToolArgs(step, tool_name, goal, res) ==
    CASE tool_name = "tavily_search" -> [query |-> goal, max_results |-> 10]
      [] tool_name = "get_weather" -> [city |-> extract_city(goal)]
      [] tool_name = "create_issue" ->
           [owner |-> IssueTarget(goal).owner, repo |-> IssueTarget(goal).repo,
            title |-> IssueTarget(goal).title, body |-> IssueBody(res, goal)]
      [] OTHER -> [none |-> TRUE]

MaxResultLen == 2000

StoreResultWhole(text) == text

\* results[tool_name] = result_str[:2000] if len(result_str) > 2000 else result_str
StoreResult(text) == IF Len(text) > MaxResultLen THEN PyFirst(text, MaxResultLen) ELSE text

\* error_msg = f"Error: {str(e)}"
\* f"Error: {str(e)}"
ErrorMarker(text) == <<"E", "r", "r", "o", "r", ":", " ">> \o text

ToolEffectSkippingFailure(res, name, r) ==
    [results |-> IF r.ok THEN DictSet(res, name, StoreResult(r.text)) ELSE res,
     raised |-> FALSE]

ToolEffectRaising(res, name, r) ==
    IF r.ok THEN [results |-> DictSet(res, name, StoreResult(r.text)), raised |-> FALSE]
    ELSE [results |-> res, raised |-> TRUE]

\* the try / except Exception around one tool: the results after it, and whether
\* an exception leaves execute_plan_tools
ToolEffect(res, name, r) ==
    [results |-> DictSet(res, name, IF r.ok THEN StoreResult(r.text) ELSE ErrorMarker(r.text)),
     raised |-> FALSE]

(***************************************************************************)
(* workflow.py: the executor step; eval/judge.py: judge_run                *)
(***************************************************************************)
executor_catches_everything(exc) == TRUE

\* `except Exception as e` around executor_crew.kickoff(): KeyboardInterrupt
\* and CancelledError are no Exception
executor_catches(exc) == exc = "Exception"

SynthEffectRaising(o) ==
    [raw_exec |-> IF o.ok THEN o.text ELSE <<>>, execution_succeeded |-> o.ok,
     execution_errors |-> <<>>, raised |-> ~o.ok]

\* the try / except Exception around executor_crew.kickoff()
SynthEffect(o) ==
    IF o.ok
    THEN [raw_exec |-> o.text, execution_succeeded |-> TRUE,
          execution_errors |-> <<>>, raised |-> FALSE]
    ELSE [raw_exec |-> <<"Execution failed: ">> \o o.text, execution_succeeded |-> FALSE,
          execution_errors |-> <<o.text>>, raised |-> FALSE]

\* int = Field(ge=0, le=5): a number without a fraction, from 0 to 5
ScoreFieldValid(x) == x.num % x.den = 0 /\ (x.num \div x.den) \in 0..5

\* JudgeScore.model_validate_json: JSON whose three scores are integers in 0..5
JudgeScoreValid(r) ==
    /\ r.json
    /\ ScoreFieldValid(r.success)
    /\ ScoreFieldValid(r.plan_quality)
    /\ ScoreFieldValid(r.reasoning_quality)

Clamp(x) ==
    LET n == x.num \div x.den IN IF n < 0 THEN 0 ELSE IF n > 5 THEN 5 ELSE n

JudgeParseClamping(r) ==
    [ok |-> r.json,
     score |-> [success |-> Clamp(r.success), plan_quality |-> Clamp(r.plan_quality),
                reasoning_quality |-> Clamp(r.reasoning_quality)]]

\* JudgeScore.model_validate_json(raw): the JudgeScore, or a ValidationError
JudgeParse(r) ==
    [ok |-> JudgeScoreValid(r),
     score |-> [success |-> r.success.num \div r.success.den,
                plan_quality |-> r.plan_quality.num \div r.plan_quality.den,
                reasoning_quality |-> r.reasoning_quality.num \div r.reasoning_quality.den]]

ScorePrompt(goal, plan, final_answer) ==
    [prompt |-> "score", goal |-> goal, plan |-> plan, final_answer |-> final_answer]

\* fix_prompt: "... Original response:\n{raw}"
RepairPrompt(raw) == [prompt |-> "repair", original |-> raw]

judge_after_parse_retrying(attempt, valid) ==
    IF valid THEN "return" ELSE "repair"

\* judge_run after the parse of response number attempt: return the score, make
\* the repair call, or let the ValidationError leave
judge_after_parse(attempt, valid) ==
    IF valid THEN "return"
    ELSE IF attempt = 1 THEN "repair"
    ELSE "raise"

(***************************************************************************)
(* workflow.py: the tail of run_orchestration (metrics and the result)     *)
(***************************************************************************)
\* the text of a tool name
NameText(name) == <<name>>

\* list(set(tools_used)): the plan's tools once each, in the order the set yields
Orders(S) == {o \in [1..Cardinality(S) -> S] : Range(o) = S}

metric_entry_always_completed(goal, judge, time, now, succeeded, errors, tools_used) ==
    [timestamp |-> now, goal |-> goal, goal_type |-> infer_goal_type(goal),
     success_score |-> judge.success, plan_score |-> judge.plan_quality,
     reasoning_score |-> judge.reasoning_quality, execution_time_seconds |-> time,
     completed |-> TRUE, errors |-> errors,
     tools_used |-> [i \in 1..Len(tools_used) |-> NameText(tools_used[i])]]

\* MetricEntry(timestamp=..., goal=user_goal, ..., tools_used=tools_used)
metric_entry(goal, judge, time, now, succeeded, errors, tools_used) ==
    [timestamp |-> now, goal |-> goal, goal_type |-> infer_goal_type(goal),
     success_score |-> judge.success, plan_score |-> judge.plan_quality,
     reasoning_score |-> judge.reasoning_quality, execution_time_seconds |-> time,
     completed |-> succeeded, errors |-> errors,
     tools_used |-> [i \in 1..Len(tools_used) |-> NameText(tools_used[i])]]

file_after_judge_always(f, verdict, entry) == LogWrite(f, entry)

\* metrics.log(metric_entry) is reached only when judge_run returned
file_after_judge(f, verdict, entry) ==
    IF verdict = "return" THEN LogWrite(f, entry) ELSE f

(***************************************************************************)
(* The state machine of run_orchestration, one action per external call.   *)
(***************************************************************************)
RunInit ==
    /\ pc = "idle"
    /\ runs = 0
    /\ user_goal = <<>>
    /\ planner_out = NoOutput
    /\ task_plan = NoPlan
    /\ stepIdx = 1
    /\ toolIdx = 1
    /\ results = <<>>
    /\ invoked = <<>>
    /\ inflight = <<>>
    /\ raw_exec = <<>>
    /\ execution_succeeded = FALSE
    /\ execution_errors = <<>>
    /\ judgeCalls = <<>>
    /\ ret = NoRet
    /\ synth = NotYet
    /\ fileAtStart = <<>>

StoreInit ==
    /\ file = <<>>
    /\ logged = <<>>
    /\ loaded = NotYet
    /\ stats = NotYet

TrendInit ==
    /\ history = <<>>
    /\ trend = "not_computed"

TextInit ==
    /\ input = <<>>
    /\ output = NotYet

Init == RunInit /\ StoreInit /\ TrendInit /\ TextInit

\* run_orchestration from its call to the first tool invocation: the planner's
\* answer, the parse, the allow-list gate and the start of execute_plan_tools
Plan(goal, out) ==
    /\ pc = "idle"
    /\ runs < MaxRuns
    /\ runs' = runs + 1
    /\ user_goal' = goal
    /\ planner_out' = out
    /\ fileAtStart' = file
    /\ loaded' = NotYet
    /\ stats' = NotYet
    /\ IF ~ValidTaskPlan(out)
       THEN /\ pc' = "failed"
            /\ task_plan' = NoPlan
            /\ ret' = [kind |-> "raise", error |-> "PlanFormatError"]
            /\ stepIdx' = 1
            /\ toolIdx' = 1
            /\ UNCHANGED results
       ELSE LET plan == [f \in DOMAIN out \ {"json"} |-> out[f]]
                bad == validate_tools(plan, get_tool_names)
                fresh == new_results(results)
                pos == NextTool(plan.steps, 1, 1, fresh)
            IN /\ task_plan' = plan
               /\ IF bad.found
                  THEN /\ pc' = "failed"
                       /\ ret' = [kind |-> "raise", error |-> "PlanToolError",
                                  tool |-> bad.tool, step_id |-> bad.step_id]
                       /\ stepIdx' = 1
                       /\ toolIdx' = 1
                       /\ UNCHANGED results
                  ELSE /\ pc' = IF pos.s > Len(plan.steps) THEN "synth" ELSE "tools"
                       /\ results' = fresh
                       /\ ret' = NoRet
                       /\ stepIdx' = pos.s
                       /\ toolIdx' = pos.t
    /\ UNCHANGED <<invoked, inflight, raw_exec, execution_succeeded, execution_errors,
                   judgeCalls, synth, file, logged, trendVars, textVars>>

\* `result = await runner.call(tool_name, args)`: the call starts and
\* execute_plan_tools is suspended at it
ToolStart ==
    /\ pc = "tools"
    /\ LET at == call_awaited(task_plan, stepIdx, toolIdx, results)
       IN /\ inflight' = Append(inflight, task_plan.steps[stepIdx].tools[toolIdx])
          /\ pc' = at.pc
          /\ stepIdx' = at.s
          /\ toolIdx' = at.t
    /\ UNCHANGED <<runs, user_goal, planner_out, task_plan, results, invoked, raw_exec,
                   execution_succeeded, execution_errors, judgeCalls, ret, synth,
                   fileAtStart, storeVars, trendVars, textVars>>

\* the awaited runner.call returns or raises: the try / except around it, and
\* the loops up to the next call or to the return of the results
ToolFinish(outcome) ==
    /\ pc = "awaiting"
    /\ inflight' = Tail(inflight)
    /\ LET name == task_plan.steps[stepIdx].tools[toolIdx]
           r == RunnerCall(name, outcome)
           eff == ToolEffect(results, name, r)
           pos == NextTool(task_plan.steps, stepIdx, toolIdx + 1, eff.results)
       IN /\ invoked' = Append(invoked,
                               [tool |-> name, outcome |-> r,
                                args |-> ToolArgs(task_plan.steps[stepIdx], name, user_goal, results)])
          /\ IF eff.raised
             THEN /\ pc' = "failed"
                  /\ ret' = [kind |-> "raise", error |-> "ToolInvocationError"]
                  /\ UNCHANGED <<results, stepIdx, toolIdx>>
             ELSE /\ results' = eff.results
                  /\ stepIdx' = pos.s
                  /\ toolIdx' = pos.t
                  /\ pc' = IF pos.s > Len(task_plan.steps) THEN "synth" ELSE "tools"
                  /\ UNCHANGED ret
    /\ UNCHANGED <<runs, user_goal, planner_out, task_plan, raw_exec, execution_succeeded,
                   execution_errors, judgeCalls, synth, fileAtStart, storeVars,
                   trendVars, textVars>>

\* executor_crew.kickoff() with its try / except
Synthesize(outcome) ==
    /\ pc = "synth"
    /\ synth' = [done |-> TRUE, ok |-> outcome.ok, text |-> outcome.text]
    /\ LET eff == SynthEffect(outcome)
       IN /\ raw_exec' = eff.raw_exec
          /\ execution_succeeded' = eff.execution_succeeded
          /\ execution_errors' = eff.execution_errors
          /\ IF eff.raised
             THEN /\ pc' = "failed"
                  /\ ret' = [kind |-> "raise", error |-> "SynthesisError"]
             ELSE /\ pc' = "judge"
                  /\ UNCHANGED ret
    /\ UNCHANGED <<runs, user_goal, planner_out, task_plan, stepIdx, toolIdx, results, invoked, inflight,
                   judgeCalls, fileAtStart, storeVars, trendVars, textVars>>

\* what follows one parse inside judge_run: the return to run_orchestration,
\* which logs the MetricEntry and returns the ExecutionResult; the repair call;
\* or the ValidationError, which leaves run_orchestration
AfterJudge(attempt, resp, order, time, now) ==
    LET parsed == JudgeParse(resp)
        verdict == judge_after_parse(attempt, parsed.ok)
        entry == metric_entry(user_goal, parsed.score, time, now, execution_succeeded,
                              execution_errors, order)
    IN /\ file' = file_after_judge(file, verdict, entry)
       /\ logged' = IF file' # file THEN Append(logged, entry) ELSE logged
       /\ pc' = CASE verdict = "return" -> "done"
                  [] verdict = "repair" -> "judge_repair"
                  [] OTHER -> "failed"
       /\ ret' = CASE verdict = "return" ->
                        [kind |-> "ExecutionResult", goal |-> user_goal,
                         completed |-> execution_succeeded, errors |-> execution_errors,
                         final_answer |-> raw_exec, tool_results |-> results,
                         judge |-> parsed.score]
                   [] verdict = "repair" -> ret
                   [] OTHER -> [kind |-> "raise", error |-> "JudgeFormatError"]

\* raw = llm.invoke(prompt).content and its parse
Judge(resp, order, time, now) ==
    /\ pc = "judge"
    /\ judgeCalls' = Append(judgeCalls,
                            [call |-> ScorePrompt(user_goal, task_plan, raw_exec),
                             response |-> resp])
    /\ AfterJudge(1, resp, order, time, now)
    /\ UNCHANGED <<runs, user_goal, planner_out, task_plan, stepIdx, toolIdx, results, invoked, inflight,
                   raw_exec, execution_succeeded, execution_errors, synth, fileAtStart,
                   loaded, stats, trendVars, textVars>>

\* raw2 = llm.invoke(fix_prompt).content and its parse
JudgeRepair(resp, order, time, now) ==
    /\ pc = "judge_repair"
    /\ judgeCalls' = Append(judgeCalls,
                            [call |-> RepairPrompt(judgeCalls[Len(judgeCalls)].response),
                             response |-> resp])
    /\ AfterJudge(Len(judgeCalls) + 1, resp, order, time, now)
    /\ UNCHANGED <<runs, user_goal, planner_out, task_plan, stepIdx, toolIdx, results, invoked, inflight,
                   raw_exec, execution_succeeded, execution_errors, synth, fileAtStart,
                   loaded, stats, trendVars, textVars>>

\* MetricsTracker.get_stats(last_n), which starts with load_all
GetStats(last_n) ==
    /\ pc = "idle"
    /\ \E r \in {load_all(file)} :
          /\ loaded' = [done |-> TRUE, ok |-> r.ok, entries |-> r.entries]
          /\ stats' = IF r.ok
                      THEN [done |-> TRUE, ok |-> TRUE, last_n |-> last_n,
                            value |-> get_stats_of(r.entries, last_n)]
                      ELSE [done |-> TRUE, ok |-> FALSE]
    /\ UNCHANGED <<runVars, file, logged, trendVars, textVars>>

\* cli.py main: the result or the error of run_orchestration is printed and the
\* loop goes on; nothing of the run is kept but the metrics file
Return ==
    /\ pc \in {"done", "failed"}
    /\ pc' = "idle"
    /\ user_goal' = <<>>
    /\ planner_out' = NoOutput
    /\ task_plan' = NoPlan
    /\ stepIdx' = 1
    /\ toolIdx' = 1
    /\ results' = new_results(results)
    /\ invoked' = <<>>
    /\ inflight' = <<>>
    /\ raw_exec' = <<>>
    /\ execution_succeeded' = FALSE
    /\ execution_errors' = <<>>
    /\ judgeCalls' = <<>>
    /\ ret' = NoRet
    /\ synth' = NotYet
    /\ fileAtStart' = <<>>
    /\ UNCHANGED <<runs, storeVars, trendVars, textVars>>

\* MetricsTracker.load_all()
LoadAll ==
    /\ pc = "idle"
    /\ \E r \in {load_all(file)} :
          loaded' = [done |-> TRUE, ok |-> r.ok, entries |-> r.entries]
    /\ UNCHANGED <<runVars, file, logged, stats, trendVars, textVars>>

\* cli.py: `metrics` and `metrics 1`
LastNs == {NoLastN, LastN(1)}

Next ==
    \/ \E goal \in Goals, out \in PlannerOutputs : Plan(goal, out)
    \/ ToolStart
    \/ \E o \in ToolOutcomes : ToolFinish(o)
    \/ \E o \in SynthOutcomes : Synthesize(o)
    \/ \E resp \in JudgeResponses, order \in Orders(PlanTools(task_plan)),
          time \in ExecTimes, now \in Timestamps : Judge(resp, order, time, now)
    \/ \E resp \in JudgeResponses, order \in Orders(PlanTools(task_plan)),
          time \in ExecTimes, now \in Timestamps : JudgeRepair(resp, order, time, now)
    \/ Return
    \/ LoadAll
    \/ \E n \in LastNs : GetStats(n)

Spec == Init /\ [][Next]_vars

(***************************************************************************)
(* run_orchestration under external interrupts: KeyboardInterrupt (or the  *)
(* cancellation of the task) raised at the point where the run stands.     *)
(***************************************************************************)
InterruptText == <<"KeyboardInterrupt">>

\* The interrupt is raised in the run: during the tool loop or an awaited tool
\* call, in executor_crew.kickoff(), in a judge call, or between metrics.log
\* and the return of the ExecutionResult (pc = "done").  Only the executor's
\* try / except stands in its way; elsewhere, and there when it does not catch,
\* the exception leaves run_orchestration, whose locals are gone with it (the
\* model keeps how the synthesis ended).
Interrupt ==
    /\ pc \in {"tools", "awaiting", "synth", "judge", "judge_repair", "done"}
    /\ IF pc = "synth" /\ executor_catches("KeyboardInterrupt")
       THEN /\ synth' = [done |-> TRUE, ok |-> FALSE, text |-> InterruptText]
            /\ raw_exec' = <<"Execution failed: ">> \o InterruptText
            /\ execution_succeeded' = FALSE
            /\ execution_errors' = <<InterruptText>>
            /\ pc' = "judge"
            /\ UNCHANGED <<user_goal, planner_out, task_plan, stepIdx, toolIdx, results,
                           invoked, inflight, judgeCalls, ret>>
       ELSE /\ pc' = "failed"
            /\ ret' = [kind |-> "raise", error |-> "KeyboardInterrupt", stage |-> pc]
            /\ user_goal' = <<>>
            /\ planner_out' = NoOutput
            /\ task_plan' = NoPlan
            /\ stepIdx' = 1
            /\ toolIdx' = 1
            /\ results' = <<>>
            /\ invoked' = <<>>
            /\ inflight' = <<>>
            /\ raw_exec' = <<>>
            /\ execution_errors' = <<>>
            /\ judgeCalls' = <<>>
            /\ UNCHANGED <<synth, execution_succeeded>>
    /\ UNCHANGED <<runs, fileAtStart, storeVars, trendVars, textVars>>

NextInterrupt == Next \/ Interrupt

SpecInterrupt == Init /\ [][NextInterrupt]_vars


(***************************************************************************)
(* Runs of run_orchestration interleaved (as asyncio.gather or threads     *)
(* would run them): every run variable is a function of the run, the       *)
(* metrics file is shared.  A run gives way to the others at its tool      *)
(* calls and around the write of its record.                               *)
(***************************************************************************)
RunIds == 1..MaxRuns

\* a plan that lists one tool twice, and one with a tool that is not loaded
ConcurrentPlans ==
    { [json |-> TRUE, steps |-> <<[step_id |-> 1, tools |-> tl]>>]
      : tl \in { <<"get_weather", "get_weather">>, <<"browser">> } }

write_in_two_calls(line) == <<SubSeq(line, 1, Len(line) - 1), <<line[Len(line)]>> >>

\* f.write(json.dumps(asdict(entry)) + "\n") on a file opened for appending:
\* the writes that reach the file, one for the whole line
write_calls(line) == <<line>>

ConcurrentInit ==
    /\ pc = [r \in RunIds |-> "idle"]
    /\ user_goal = [r \in RunIds |-> <<>>]
    /\ task_plan = [r \in RunIds |-> NoPlan]
    /\ stepIdx = [r \in RunIds |-> 1]
    /\ toolIdx = [r \in RunIds |-> 1]
    /\ results = [r \in RunIds |-> <<>>]
    /\ invoked = [r \in RunIds |-> <<>>]
    /\ inflight = [r \in RunIds |-> <<>>]
    /\ ret = [r \in RunIds |-> NoRet]
    /\ runs = 0
    /\ planner_out = NoOutput
    /\ raw_exec = <<>>
    /\ execution_succeeded = FALSE
    /\ execution_errors = <<>>
    /\ judgeCalls = <<>>
    /\ synth = NotYet
    /\ fileAtStart = <<>>
    /\ StoreInit
    /\ TrendInit
    /\ TextInit

\* run r from its start to its first tool call: the plan, the allow-list gate
\* and the new results dict
Begin(r, goal, out) ==
    /\ pc[r] = "idle"
    /\ runs' = runs + 1
    /\ user_goal' = [user_goal EXCEPT ![r] = goal]
    /\ LET plan == [f \in DOMAIN out \ {"json"} |-> out[f]]
           valid == ValidTaskPlan(out) /\ ~validate_tools(plan, get_tool_names).found
           fresh == new_results(results[r])
           pos == NextTool(plan.steps, 1, 1, fresh)
       IN /\ task_plan' = [task_plan EXCEPT ![r] = IF ValidTaskPlan(out) THEN plan ELSE NoPlan]
          /\ results' = [results EXCEPT ![r] = IF valid THEN fresh ELSE @]
          /\ stepIdx' = [stepIdx EXCEPT ![r] = IF valid THEN pos.s ELSE 1]
          /\ toolIdx' = [toolIdx EXCEPT ![r] = IF valid THEN pos.t ELSE 1]
          /\ pc' = [pc EXCEPT ![r] = IF ~valid THEN "failed"
                                     ELSE IF pos.s > Len(plan.steps) THEN "synth" ELSE "tools"]
    /\ UNCHANGED <<planner_out, invoked, inflight, raw_exec, execution_succeeded,
                   execution_errors, judgeCalls, ret, synth, fileAtStart, storeVars,
                   trendVars, textVars>>

\* the tool call run r is waiting for returns or raises
ToolReturns(r, outcome) ==
    /\ pc[r] = "tools"
    /\ LET step == task_plan[r].steps[stepIdx[r]]
           name == step.tools[toolIdx[r]]
           res == RunnerCall(name, outcome)
           eff == ToolEffect(results[r], name, res)
           pos == NextTool(task_plan[r].steps, stepIdx[r], toolIdx[r] + 1, eff.results)
       IN /\ invoked' = [invoked EXCEPT ![r] =
                            Append(@, [tool |-> name, outcome |-> res,
                                       args |-> ToolArgs(step, name, user_goal[r], results[r])])]
          /\ results' = [results EXCEPT ![r] = eff.results]
          /\ stepIdx' = [stepIdx EXCEPT ![r] = pos.s]
          /\ toolIdx' = [toolIdx EXCEPT ![r] = pos.t]
          /\ pc' = [pc EXCEPT ![r] = IF eff.raised THEN "failed"
                                     ELSE IF pos.s > Len(task_plan[r].steps) THEN "synth"
                                     ELSE "tools"]
    /\ UNCHANGED <<runs, user_goal, planner_out, task_plan, inflight, raw_exec,
                   execution_succeeded, execution_errors, judgeCalls, ret, synth,
                   fileAtStart, storeVars, trendVars, textVars>>

\* the executor and the judge of run r, which give way to no other run: the run
\* fails when the judge's last answer is no score, else it has its MetricEntry
\* (with the run as its execution time) and the writes of metrics.log to do
Conclude(r, outcome, resp, order, now) ==
    /\ pc[r] = "synth"
    /\ LET eff == SynthEffect(outcome)
           parsed == JudgeParse(resp)
           entry == metric_entry(user_goal[r], parsed.score, r, now, eff.execution_succeeded,
                                 eff.execution_errors, order)
       IN IF judge_after_parse(2, parsed.ok) = "return"
          THEN /\ pc' = [pc EXCEPT ![r] = "logging"]
               /\ ret' = [ret EXCEPT ![r] = entry]
               /\ inflight' = [inflight EXCEPT ![r] = write_calls(JsonDumps(entry) \o <<NL>>)]
          ELSE /\ pc' = [pc EXCEPT ![r] = "failed"]
               /\ UNCHANGED <<ret, inflight>>
    /\ UNCHANGED <<runs, user_goal, planner_out, task_plan, stepIdx, toolIdx, results,
                   invoked, raw_exec, execution_succeeded, execution_errors, judgeCalls,
                   synth, fileAtStart, storeVars, trendVars, textVars>>

\* one write of run r reaches the file, at its end
Write(r) ==
    /\ pc[r] = "logging"
    /\ file' = file \o Head(inflight[r])
    /\ inflight' = [inflight EXCEPT ![r] = Tail(@)]
    /\ pc' = [pc EXCEPT ![r] = IF Len(inflight[r]) = 1 THEN "done" ELSE "logging"]
    /\ logged' = IF Len(inflight[r]) = 1 THEN Append(logged, ret[r]) ELSE logged
    /\ UNCHANGED <<runs, user_goal, planner_out, task_plan, stepIdx, toolIdx, results,
                   invoked, raw_exec, execution_succeeded, execution_errors, judgeCalls,
                   ret, synth, fileAtStart, loaded, stats, trendVars, textVars>>

NextConcurrent ==
    \E r \in RunIds :
        \/ \E goal \in Goals, out \in ConcurrentPlans : Begin(r, goal, out)
        \/ \E o \in ToolOutcomes : ToolReturns(r, o)
        \/ \E o \in SynthOutcomes, resp \in JudgeResponses,
              order \in Orders(PlanTools(task_plan[r])), now \in Timestamps :
                 Conclude(r, o, resp, order, now)
        \/ Write(r)

SpecConcurrent == ConcurrentInit /\ [][NextConcurrent]_vars

(***************************************************************************)
(* The metrics store on its own: MetricsTracker.log, load_all, get_stats   *)
(* on entries whose texts hold the characters JSON escapes.                *)
(***************************************************************************)
Sample(goal, score, completed, errors, tools_used) ==
    [timestamp |-> <<"2026-01-01T00:00:00">>, goal |-> goal,
     goal_type |-> infer_goal_type(goal), success_score |-> score,
     plan_score |-> 4, reasoning_score |-> 0, execution_time_seconds |-> 7,
     completed |-> completed, errors |-> errors, tools_used |-> tools_used]

SampleEntries ==
    { Sample(<<"h","i">>, 5, TRUE, <<>>, <<>>),
      Sample(<<NL>>, 0, FALSE, << <<QT>> >>, << <<"get_weather">> >>),
      Sample(<<BS, "n">>, 3, FALSE, << <<>>, <<",">> >>,
             << <<"get_weather">>, <<"create_issue">> >>),
      Sample(<<>>, 1, TRUE, << <<"]", NL, NL, "}">> >>, <<>>),
      Sample(<<" ", QT, ",", QT, BS>>, 2, FALSE, << <<BS, BS, QT>>, <<NL>> >>,
             << <<"create_issue">> >>) }

\* MetricsTracker.log(entry)
LogEntry(e) ==
    /\ pc = "idle"
    /\ Len(logged) < MaxLogged
    /\ file' = LogWrite(file, e)
    /\ logged' = Append(logged, e)
    /\ loaded' = NotYet
    /\ stats' = NotYet
    /\ UNCHANGED <<runVars, trendVars, textVars>>

\* cli.py `metrics [N]`, view_metrics.py [N]: no N, 0, N below, at and above the
\* number of entries, and a negative N (view_metrics.py takes any int)
StoreLastNs == {NoLastN} \cup {LastN(n) : n \in (0 - 1)..(MaxLogged + 1)}

NextStore ==
    \/ \E e \in SampleEntries : LogEntry(e)
    \/ LoadAll
    \/ \E n \in StoreLastNs : GetStats(n)

SpecStore == Init /\ [][NextStore]_vars

(***************************************************************************)
(* load_all and get_stats on a metrics file that something else than       *)
(* MetricsTracker.log has written lines to.  input is the history of these *)
(* lines; no line written yet is the file that does not exist.             *)
(***************************************************************************)
GoodEntry == Sample(<<"h","i">>, 5, TRUE, <<>>, <<>>)

\* the text of GoodEntry with the number 5 where the string of goal stands
MistypedRecord ==
    LET d == JsonDumps(GoodEntry)
        key == JsonKey("goal")
        p == CHOOSE i \in 1..Len(d) : StartsWith(d, i, key)
    IN SubSeq(d, 1, p + Len(key) - 1) \o <<"5">>
       \o SubSeq(d, p + Len(key) + Len(JsonStr(GoodEntry.goal)), Len(d))

\* the lines load_all may find: records as log writes them, a blank line, a
\* record cut short, an object without the fields, a text that is no JSON, and
\* a record of which one value has another type than its field
FileLines ==
    LET Entry2 == Sample(<<NL>>, 0, FALSE, << <<QT>> >>, << <<"get_weather">> >>)
        Line(kind, text, entry) == [kind |-> kind, text |-> text \o <<NL>>, entry |-> entry]
    IN { Line("record", JsonDumps(GoodEntry), GoodEntry),
         Line("record", JsonDumps(Entry2), Entry2),
         Line("blank", <<" ", "\t">>, GoodEntry),
         Line("cut", SubSeq(JsonDumps(GoodEntry), 1, Len(JsonDumps(GoodEntry)) - 1), GoodEntry),
         Line("fields_missing",
              <<"{">> \o JsonKey("goal") \o JsonStr(GoodEntry.goal) \o <<"}">>, GoodEntry),
         Line("no_json", <<"o", "o", "p", "s">>, GoodEntry),
         Line("mistyped", MistypedRecord, [GoodEntry EXCEPT !.goal = 5]) }

WriteLine(l) ==
    /\ pc = "idle"
    /\ Len(input) < MaxLogged
    /\ input' = Append(input, l)
    /\ file' = file \o l.text
    /\ loaded' = NotYet
    /\ stats' = NotYet
    /\ UNCHANGED <<runVars, logged, trendVars, output>>

NextRead ==
    \/ \E l \in FileLines : WriteLine(l)
    \/ LoadAll
    \/ \E n \in LastNs : GetStats(n)

SpecRead == Init /\ [][NextRead]_vars

(***************************************************************************)
(* _calculate_trend on its own, on the entries list as it grows.           *)
(***************************************************************************)
TrendScores == {1, 4, 5}

\* self._calculate_trend(entries, window=5) on the list with one more entry
AddEntry(score) ==
    /\ Len(history) < MaxHistory
    /\ history' = Append(history, Sample(<<"h","i">>, score, TRUE, <<>>, <<>>))
    /\ trend' = calculate_trend(history', TrendWindow)
    /\ UNCHANGED <<runVars, storeVars, textVars>>

NextTrend == \E score \in TrendScores : AddEntry(score)

SpecTrend == Init /\ [][NextTrend]_vars


(***************************************************************************)
(* The storing of one tool result on its own, on result texts of every     *)
(* length up to a few characters more than the limit.                      *)
(***************************************************************************)
\* str(result): a text of n characters, no two neighbours alike
ResultText(n) == [i \in 1..n |-> Digits[(i % 10) + 1]]

ResultTexts == {ResultText(n) : n \in 0..(MaxResultLen + MaxOverflow)}

TruncateInit ==
    /\ RunInit
    /\ StoreInit
    /\ TrendInit
    /\ input \in ResultTexts
    /\ output = NotYet

\* one pass of the tool loop for a tool that returned input
StoreToolResult ==
    /\ ~output.done
    /\ output' = [done |-> TRUE,
                  results |-> ToolEffect(<<>>, "get_weather",
                                         [ok |-> TRUE, text |-> input]).results]
    /\ UNCHANGED <<runVars, storeVars, trendVars, input>>

NextTruncate == StoreToolResult

SpecTruncate == TruncateInit /\ [][NextTruncate]_vars

(***************************************************************************)
(* execute_plan_tools on its own: one run up to the return of the results, *)
(* on plans that differ in what their steps list and in everything else,   *)
(* and with results and errors longer than the limit.                      *)
(***************************************************************************)
ToolStepLists ==
    { <<>>, <<"create_issue">>, <<"get_weather", "create_issue">>, <<"tavily_search">>,
      <<"tavily_search", "get_weather">>, <<"create_issue", "tavily_search">> }

\* a plan of n steps in two wordings: other step_ids, actions, criteria,
\* assumptions and risks around the same tools
PlanWordings(n) ==
    { [json |-> TRUE, goal |-> <<"g">>, assumptions |-> <<>>, risks |-> <<>>,
       steps |-> [i \in 1..n |-> [step_id |-> i, action |-> <<"a">>, tools |-> tl[i],
                                  success_criteria |-> <<"c">>]]]
      : tl \in [1..n -> ToolStepLists] }
    \cup
    { [json |-> TRUE, goal |-> <<"h">>, assumptions |-> << <<"x">> >>, risks |-> << <<"y">> >>,
       steps |-> [i \in 1..n |-> [step_id |-> i + 10, action |-> <<"b">>, tools |-> tl[i],
                                  success_criteria |-> <<"d">>]]]
      : tl \in [1..n -> ToolStepLists] }

ToolPlans == UNION {PlanWordings(n) : n \in 1..MaxSteps}

ToolGoals == Goals \cup { <<" ", "P", "a", "r", "i", "s", " ">> }

\* tool.ainvoke(args): also a result and an exception message of one character
\* more than the limit
LongOutcomes ==
    ToolOutcomes \cup { [ok |-> TRUE, text |-> ResultText(MaxResultLen + 1)],
                        [ok |-> FALSE, text |-> ResultText(MaxResultLen + 1)] }

NextTools ==
    \/ \E goal \in ToolGoals, out \in ToolPlans : Plan(goal, out)
    \/ ToolStart
    \/ \E o \in LongOutcomes : ToolFinish(o)

SpecTools == Init /\ [][NextTools]_vars

(***************************************************************************)
(* The sanitizing and the parse of the planner's text on their own, on     *)
(* plan texts with and without a fence around them.                        *)
(***************************************************************************)
\* what may follow the opening fence: nothing, json in two letter cases and
\* two other language tags
FenceTags ==
    { [kind |-> "bare", tag |-> <<>>],
      [kind |-> "json", tag |-> <<"j", "s", "o", "n">>],
      [kind |-> "json", tag |-> <<"J", "S", "O", "N">>],
      [kind |-> "other", tag |-> <<"j", "s">>],
      [kind |-> "other", tag |-> <<"j", "s", "o", "n", "c">>] }

\* planner_crew.kickoff(): a plan text as it is or inside a fence, with white
\* space around it
PlannerTexts ==
    LET Pads == {<<>>, <<" ">>, <<NL>>}
    IN { [fence |-> "none", plan |-> p.text, text |-> pre \o p.text \o post]
         : p \in PlanJsons, pre \in Pads, post \in Pads }
       \cup
       { [fence |-> f.kind, plan |-> p.text,
          text |-> pre \o Fence \o f.tag \o sep \o p.text \o close \o Fence \o post]
         : p \in PlanJsons, f \in FenceTags, pre \in {<<>>, <<" ">>}, sep \in Pads,
           close \in {<<>>, <<NL>>}, post \in {<<>>, <<NL>>} }

SanitizeInit ==
    /\ RunInit
    /\ StoreInit
    /\ TrendInit
    /\ input \in PlannerTexts
    /\ output = NotYet

\* workflow.py 313-324 on the text the planner returned
SanitizeAndParse ==
    /\ ~output.done
    /\ \E raw_plan \in {sanitize(input.text)} :
          output' = [done |-> TRUE, raw_plan |-> raw_plan,
                     task_plan |-> model_validate_json(raw_plan)]
    /\ UNCHANGED <<runVars, storeVars, trendVars, input>>

SpecSanitize == SanitizeInit /\ [][SanitizeAndParse]_vars

(***************************************************************************)
(* extract_city and infer_goal_type on their own, on goals of up to        *)
(* MaxWords words and on the goals the documentation gives as examples.    *)
(***************************************************************************)
GoalWords ==
    { <<"w","e","a","t","h","e","r">>, <<"i","n">>, <<"n","e","w">>, <<"y","o","r","k">>,
      <<"n","y","c">>, <<"P","a","r","i","s">>, <<"f","i","n","d">>,
      <<"i","s","s","u","e">>, <<"h","e","l","l","o">> }

RECURSIVE JoinWords(_)
JoinWords(ws) ==
    IF ws = <<>> THEN <<>>
    ELSE IF Len(ws) = 1 THEN ws[1]
    ELSE ws[1] \o <<" ">> \o JoinWords(Tail(ws))

WeatherInNewYork ==
    <<"W","e","a","t","h","e","r"," ","i","n"," ","N","e","w"," ","Y","o","r","k">>
NycWeather == <<"n","y","c"," ","w","e","a","t","h","e","r">>

GoalTexts ==
    {JoinWords(ws) : ws \in UNION {[1..n -> GoalWords] : n \in 0..MaxWords}}
    \cup {WeatherInNewYork, NycWeather}

GoalTextInit ==
    /\ RunInit
    /\ StoreInit
    /\ TrendInit
    /\ input \in GoalTexts
    /\ output = NotYet

\* city = extract_city(user_goal)
ExtractCity ==
    /\ ~output.done
    /\ output' = [done |-> TRUE, of |-> "extract_city", value |-> extract_city(input)]
    /\ UNCHANGED <<runVars, storeVars, trendVars, input>>

\* goal_type = infer_goal_type(user_goal)
InferGoalType ==
    /\ ~output.done
    /\ output' = [done |-> TRUE, of |-> "infer_goal_type", value |-> infer_goal_type(input)]
    /\ UNCHANGED <<runVars, storeVars, trendVars, input>>

NextGoalText == ExtractCity \/ InferGoalType

SpecGoalText == GoalTextInit /\ [][NextGoalText]_vars

(***************************************************************************)
(* Properties of run_orchestration (Spec).                                 *)
(***************************************************************************)
HasInvalidTool(plan) == PlanTools(plan) \ get_tool_names # {}

FailedTools == {i \in 1..Len(invoked) : ~invoked[i].outcome.ok}

SynthFailed == synth.done /\ ~synth.ok

FailureMarker == <<"Execution failed: ">> \o synth.text

\* execute_plan_tools has returned its results
ToolsReturned ==
    \/ pc \in {"synth", "judge", "judge_repair", "done"}
    \/ pc = "failed" /\ ret.error = "JudgeFormatError"

\* C1: while a run holds a parsed plan that names a tool outside the allow-list,
\* the run has failed with the tool error, no tool was invoked (none of the
\* valid ones either), and neither the executor, the judge nor the metrics log
\* was reached.
C1_InvalidToolAbortsBeforeAnyTool ==
    (pc # "idle" /\ HasInvalidTool(task_plan)) =>
        /\ pc = "failed"
        /\ ret.kind = "raise"
        /\ ret.error = "PlanToolError"
        /\ invoked = <<>>
        /\ results = <<>>
        /\ ~synth.done
        /\ judgeCalls = <<>>
        /\ file = fileAtStart

\* a run of a plan whose first step lists a loaded tool and whose second step
\* lists an unknown one has failed
C1_Witness ==
    /\ pc = "failed"
    /\ Len(task_plan.steps) = 2
    /\ task_plan.steps[1].tools = <<"create_issue", "get_weather">>
    /\ task_plan.steps[2].tools = <<"browser">>

\* C2: in one call of execute_plan_tools no tool name is invoked twice, and the
\* results hold, for each invoked name in the order of the invocations, what
\* its one invocation left: the result text or the error marker.
C2_EachToolInvokedOnce ==
    /\ \A i, j \in 1..Len(invoked) : invoked[i].tool = invoked[j].tool => i = j
    /\ Len(results) = Len(invoked)
    /\ \A i \in 1..Len(invoked) :
          /\ results[i].name = invoked[i].tool
          /\ results[i].value = IF invoked[i].outcome.ok
                                THEN StoreResult(invoked[i].outcome.text)
                                ELSE ErrorMarker(invoked[i].outcome.text)

\* get_weather is listed twice in step 1 and again in step 2, its first
\* invocation failed, and execute_plan_tools has returned
C2_Witness ==
    /\ pc = "synth"
    /\ Len(task_plan.steps) = 2
    /\ task_plan.steps[1].tools = <<"get_weather", "get_weather">>
    /\ task_plan.steps[2].tools = <<"create_issue", "get_weather">>
    /\ Len(invoked) = 2
    /\ invoked[1].tool = "get_weather"
    /\ ~invoked[1].outcome.ok

\* C3: a failed tool invocation leaves the error marker under the tool's name,
\* no exception leaves execute_plan_tools, and once execute_plan_tools has
\* returned every tool of the plan has been invoked.
C3_ToolFailureIsRecordedAndOthersRun ==
    /\ \A i \in FailedTools :
          /\ invoked[i].tool \in Keys(results)
          /\ DictGet(results, invoked[i].tool)
                = <<"E", "r", "r", "o", "r", ":", " ">> \o invoked[i].outcome.text
    /\ ~(ret.kind = "raise" /\ ret.error = "ToolInvocationError")
    /\ (pc = "tools" /\ invoked # <<>>) =>
          task_plan.steps[stepIdx].tools[toolIdx] \notin {invoked[i].tool : i \in 1..Len(invoked)}
    /\ ToolsReturned => {invoked[i].tool : i \in 1..Len(invoked)} = PlanTools(task_plan)

\* the first tool of a step failed and the second tool of the same step was
\* invoked after it
C3_Witness ==
    /\ pc = "synth"
    /\ task_plan.steps[1].tools = <<"create_issue", "get_weather">>
    /\ Len(invoked) = 2
    /\ ~invoked[1].outcome.ok
    /\ invoked[2].outcome.ok

\* C4: judge_run makes one call with the scoring prompt; it makes a second call
\* only when the first response failed to parse, and that call's prompt holds
\* the first response; it never makes a third; it returns the response that
\* parsed, and when neither parses the error leaves the run.
C4_JudgeRepairsOnce ==
    /\ Len(judgeCalls) <= 2
    /\ judgeCalls # <<>> => judgeCalls[1].call.prompt = "score"
    /\ Len(judgeCalls) = 2 =>
          /\ ~JudgeScoreValid(judgeCalls[1].response)
          /\ judgeCalls[2].call.prompt = "repair"
          /\ judgeCalls[2].call.original = judgeCalls[1].response
    /\ pc = "judge_repair" =>
          Len(judgeCalls) = 1 /\ ~JudgeScoreValid(judgeCalls[1].response)
    /\ pc = "done" =>
          /\ judgeCalls # <<>>
          /\ JudgeScoreValid(judgeCalls[Len(judgeCalls)].response)
          /\ ret.judge = JudgeParse(judgeCalls[Len(judgeCalls)].response).score
          /\ JudgeScoreValid(judgeCalls[1].response) => Len(judgeCalls) = 1
    /\ (pc = "failed" /\ judgeCalls # <<>>) =>
          /\ Len(judgeCalls) = 2
          /\ ~JudgeScoreValid(judgeCalls[2].response)
          /\ ret.kind = "raise"
          /\ ret.error = "JudgeFormatError"

\* the first response carried success = 6, the repair response parsed
C4_Witness ==
    /\ pc = "done"
    /\ Len(judgeCalls) = 2
    /\ judgeCalls[1].response.json
    /\ judgeCalls[1].response.success = JsonInt(6)

\* C5: a run that ended in an error has left the metrics file as it found it.
C5_FatalRunLogsNothing ==
    pc = "failed" => file = fileAtStart

\* the judge failed twice in a run that started with a record in the file
C5_Witness ==
    /\ pc = "failed"
    /\ ret.error = "JudgeFormatError"
    /\ fileAtStart # <<>>

\* C6 as stated: a finished run in which a tool invocation or the synthesis
\* failed has logged an entry with completed = false whose errors hold the text
\* of each of these errors.
C6_AsStated ==
    (pc = "done" /\ (SynthFailed \/ FailedTools # {})) =>
        LET e == logged[Len(logged)] IN
        /\ e.completed = FALSE
        /\ SynthFailed => synth.text \in Range(e.errors)
        /\ \A i \in FailedTools : invoked[i].outcome.text \in Range(e.errors)

\* C6 as amended: neither a tool failure nor a synthesis failure ends the run in
\* an error; the finished run has appended one entry, which has completed =
\* false and the synthesis error as its errors when the synthesis failed, and
\* completed = true and no errors when it did not, whatever the tools did.
C6_EntryReflectsSynthesisOnly ==
    /\ pc = "failed" =>
          ret.error \in {"PlanFormatError", "PlanToolError", "JudgeFormatError"}
    /\ pc = "done" =>
          LET e == logged[Len(logged)] IN
          /\ file = fileAtStart \o JsonDumps(e) \o <<NL>>
          /\ SynthFailed => e.completed = FALSE /\ e.errors = <<synth.text>>
          /\ ~SynthFailed => e.completed = TRUE /\ e.errors = <<>>

\* a finished run in which a tool failed and the synthesis failed too
C6_Witness ==
    /\ pc = "done"
    /\ SynthFailed
    /\ FailedTools # {}

\* C7: once the synthesis has failed, the final answer is the failure marker,
\* the run is marked not completed and goes on to the judge (it can only end in
\* the judge's own error); the judge is asked about the marker, and the
\* ExecutionResult returned has completed = false, the failure text as errors
\* and the marker as final answer.
C7_SynthesisFailureIsJudged ==
    SynthFailed =>
        /\ raw_exec = FailureMarker
        /\ ~execution_succeeded
        /\ execution_errors = <<synth.text>>
        /\ pc \in {"judge", "judge_repair", "done", "failed"}
        /\ pc = "failed" => ret.error = "JudgeFormatError"
        /\ pc # "judge" => judgeCalls # <<>>
        /\ judgeCalls # <<>> => judgeCalls[1].call.final_answer = FailureMarker
        /\ pc = "done" =>
              /\ ret.kind = "ExecutionResult"
              /\ ret.completed = FALSE
              /\ ret.errors = <<synth.text>>
              /\ ret.final_answer = FailureMarker

\* the synthesis failed and the run returned its ExecutionResult
C7_Witness ==
    /\ pc = "done"
    /\ SynthFailed
    /\ FailedTools = {}

\* C8: no step changes, reorders or removes what the metrics file holds; the
\* file grows only when a run finishes, and then by one record at its end.
C8_LogIsAppendOnly ==
    [][ /\ IsPrefix(file, file')
        /\ file' # file => pc # "done" /\ pc' = "done"
        /\ (pc # "done" /\ pc' = "done") =>
              LET added == SubSeq(file', Len(file) + 1, Len(file'))
              IN /\ added = JsonDumps(logged'[Len(logged')]) \o <<NL>>
                 /\ {i \in 1..Len(added) : added[i] = NL} = {Len(added)}
      ]_vars

\* two runs have logged their records and get_stats has read them
C8_Witness ==
    /\ pc = "idle"
    /\ stats.done
    /\ Len(logged) = 2
    /\ runs = 2

RECURSIVE FirstEncounters(_, _)
FirstEncounters(names, seen) ==
    IF names = <<>> THEN <<>>
    ELSE IF Head(names) \in seen THEN FirstEncounters(Tail(names), seen)
    ELSE <<Head(names)>> \o FirstEncounters(Tail(names), seen \cup {Head(names)})

RECURSIVE AllTools(_)
AllTools(steps) ==
    IF steps = <<>> THEN <<>> ELSE Head(steps).tools \o AllTools(Tail(steps))

\* C11: the keys of the results map are, in this order, the distinct tool names
\* of the plan as they are first met walking the steps in plan order and each
\* step's tools in list order: while execute_plan_tools runs they are a prefix
\* of that list, when it has returned they are the whole list, and this is the
\* map the ExecutionResult carries.
C11_ResultsKeysInEncounterOrder ==
    LET keys == [i \in 1..Len(results) |-> results[i].name]
        order == FirstEncounters(AllTools(task_plan.steps), {})
    IN /\ pc \in {"tools", "awaiting"} => IsPrefix(keys, order)
       /\ ToolsReturned => keys = order
       /\ pc = "done" => ret.tool_results = results

\* get_weather twice in step 1, create_issue and get_weather in step 2: the
\* map returned has the keys get_weather, create_issue
C11_Witness ==
    /\ pc = "synth"
    /\ Len(task_plan.steps) = 2
    /\ task_plan.steps[1].tools = <<"get_weather", "get_weather">>
    /\ task_plan.steps[2].tools = <<"create_issue", "get_weather">>
    /\ [i \in 1..Len(results) |-> results[i].name] = <<"get_weather", "create_issue">>
    /\ \A i \in 1..Len(invoked) : invoked[i].outcome.ok

Offending(plan) ==
    {p \in UNION {{<<i, j>> : j \in 1..Len(plan.steps[i].tools)} : i \in 1..Len(plan.steps)} :
        plan.steps[p[1]].tools[p[2]] \notin get_tool_names}

\* C12: a plan with a tool outside the allow-list fails the tool validation, and
\* the failure names the first offending tool in plan order and the step_id of
\* the step that lists it.
C12_FailureNamesFirstOffendingTool ==
    (pc # "idle" /\ Offending(task_plan) # {}) =>
        LET first == CHOOSE p \in Offending(task_plan) :
                        \A q \in Offending(task_plan) :
                            p[1] < q[1] \/ (p[1] = q[1] /\ p[2] <= q[2])
        IN /\ pc = "failed"
           /\ ret.kind = "raise"
           /\ ret.error = "PlanToolError"
           /\ ret.tool = task_plan.steps[first[1]].tools[first[2]]
           /\ ret.step_id = task_plan.steps[first[1]].step_id

\* a valid first step, then a step with two offending tools: the failure names
\* the first of the two and step 2
C12_Witness ==
    /\ pc = "failed"
    /\ Len(task_plan.steps) = 2
    /\ task_plan.steps[1].tools = <<"get_weather", "get_weather">>
    /\ task_plan.steps[2].tools = <<"shell", "browser">>
    /\ ret.tool = "shell"
    /\ ret.step_id = 2

\* C13: when every step of the planner's plan lists only allowed tools (or no
\* tool), the run passes the tool validation, and the plan the tools are executed
\* from is the planner's: the same steps with the same tools in the same order.
C13_ValidPlanPassesUnchanged ==
    (/\ pc # "idle"
     /\ ValidTaskPlan(planner_out)
     /\ \A i \in 1..Len(planner_out.steps) :
           Range(planner_out.steps[i].tools) \subseteq get_tool_names) =>
        /\ ~(pc = "failed" /\ ret.error \in {"PlanToolError", "PlanFormatError"})
        /\ task_plan.steps = planner_out.steps

\* a plan whose first step has no tool and whose second has one is being
\* executed
C13_Witness ==
    /\ pc = "awaiting"
    /\ Len(task_plan.steps) = 2
    /\ task_plan.steps[1].tools = <<>>
    /\ task_plan.steps[2].tools = <<"create_issue", "get_weather">>
    /\ inflight = <<"create_issue">>

OutOfContract(x) == x.num % x.den # 0 \/ x.num < 0 \/ x.num > 5 * x.den

\* C14: the JudgeScore a run returns has three integers from 0 to 5, and they
\* are the numbers of the response it was parsed from; a response with a number
\* below 0, above 5 or with a fraction is never the one returned: the repair
\* call or the error follows it.
C14_ScoresInRangeNeverClamped ==
    /\ pc = "done" =>
          LET raw == judgeCalls[Len(judgeCalls)].response
          IN /\ ret.judge.success \in 0..5
             /\ ret.judge.plan_quality \in 0..5
             /\ ret.judge.reasoning_quality \in 0..5
             /\ JsonInt(ret.judge.success) = raw.success
             /\ JsonInt(ret.judge.plan_quality) = raw.plan_quality
             /\ JsonInt(ret.judge.reasoning_quality) = raw.reasoning_quality
             /\ logged[Len(logged)].success_score = ret.judge.success
    /\ \A i \in 1..Len(judgeCalls) :
          LET raw == judgeCalls[i].response
          IN (raw.json /\ (\/ OutOfContract(raw.success)
                           \/ OutOfContract(raw.plan_quality)
                           \/ OutOfContract(raw.reasoning_quality))) =>
                /\ i < Len(judgeCalls) \/ pc \in {"judge_repair", "failed"}
                /\ pc = "failed" => ret.error = "JudgeFormatError"

\* a response with plan_quality 4.5 was followed by one with reasoning_quality
\* -1, and the run failed
C14_Witness ==
    /\ pc = "failed"
    /\ Len(judgeCalls) = 2
    /\ judgeCalls[1].response.plan_quality = JsonHalves(9)
    /\ judgeCalls[2].response.reasoning_quality = JsonInt(0 - 1)

\* C25: the results map belongs to one run.  Whatever the runs before it
\* invoked, a run starts its tool loop on an empty map, the map holds for each
\* of the run's own invocations, in their order, what that invocation left and
\* nothing else, and once execute_plan_tools has returned every tool of the
\* plan has been invoked in this run.
C25_ResultsAreScopedToOneRun ==
    pc \in {"tools", "awaiting", "synth", "judge", "judge_repair", "done"} =>
        /\ [i \in 1..Len(results) |-> results[i].name]
              = [i \in 1..Len(invoked) |-> invoked[i].tool]
        /\ \A i \in 1..Len(results) :
              results[i].value = ToolEffect(<<>>, invoked[i].tool, invoked[i].outcome).results[1].value
        /\ ToolsReturned => PlanTools(task_plan) \subseteq {invoked[i].tool : i \in 1..Len(invoked)}

\* the first run used get_weather and create_issue and logged its entry; the
\* second run, whose plan names get_weather only, has invoked it again, this
\* time with a failure, and its map holds that failure alone
C25_Witness ==
    /\ runs = 2
    /\ pc = "synth"
    /\ Len(logged) = 1
    /\ {NameText("get_weather"), NameText("create_issue")} \subseteq Range(logged[1].tools_used)
    /\ Len(invoked) = 1
    /\ invoked[1].tool = "get_weather"
    /\ ~invoked[1].outcome.ok
    /\ results = <<[name |-> "get_weather", value |-> ErrorMarker(invoked[1].outcome.text)]>>

\* C19: at most one tool invocation is in flight at any moment: execute_plan_tools
\* waits at the invocation it started, and an invocation is in flight only when
\* every invocation started before it has returned or failed and is recorded.
C19_OneToolCallAtATime ==
    /\ Len(inflight) <= 1
    /\ inflight # <<>> <=> pc = "awaiting"
    /\ pc = "awaiting" =>
          /\ inflight = <<task_plan.steps[stepIdx].tools[toolIdx]>>
          /\ inflight[1] \notin {invoked[i].tool : i \in 1..Len(invoked)}
          /\ Len(results) = Len(invoked)

\* the second tool of a step is in flight after the first one has failed
C19_Witness ==
    /\ pc = "awaiting"
    /\ inflight = <<"get_weather">>
    /\ Len(invoked) = 1
    /\ invoked[1].tool = "create_issue"
    /\ ~invoked[1].outcome.ok

(***************************************************************************)
(* Properties of interrupted runs (SpecInterrupt).                         *)
(***************************************************************************)
Interrupted == pc = "failed" /\ ret.error = "KeyboardInterrupt"

\* C20 as stated: a run interrupted before the synthesis has finished leaves no
\* MetricEntry; a run interrupted after the synthesis has left one, with
\* completed = false.
C20_AsStated ==
    Interrupted =>
        IF ret.stage \in {"tools", "awaiting", "synth"}
        THEN file = fileAtStart
        ELSE /\ file # fileAtStart
             /\ logged[Len(logged)].completed = FALSE

\* C20 as amended: a run that an interrupt aborts before metrics.log has run,
\* be it before, during or after the synthesis, leaves no MetricEntry; one
\* aborted after metrics.log has left the entry of the run, whose completed
\* flag tells how the synthesis ended; and no entry ever records an interrupt.
C20_InterruptBeforeLogLeavesNoEntry ==
    /\ Interrupted =>
          IF ret.stage # "done"
          THEN file = fileAtStart
          ELSE /\ file = fileAtStart \o JsonDumps(logged[Len(logged)]) \o <<NL>>
               /\ logged[Len(logged)].completed = synth.ok
    /\ \A i \in 1..Len(logged) : InterruptText \notin Range(logged[i].errors)
    /\ synth.done => synth.text # InterruptText

\* a run was interrupted in the judge's repair call, after a synthesis that
\* had failed, with an entry of an earlier run in the file
C20_Witness ==
    /\ Interrupted
    /\ ret.stage = "judge_repair"
    /\ synth.done
    /\ ~synth.ok
    /\ fileAtStart # <<>>

(***************************************************************************)
(* Properties of extract_city and infer_goal_type (SpecGoalText).          *)
(***************************************************************************)
\* a goal none of the rules of extract_city matches: no "in X" / "for X", no
\* "X weather", no capitalized word of more than two characters, no abbreviation
MatchesNoRule(text) ==
    /\ ~SearchPattern1(Lower(text)).found
    /\ ~SearchPattern2(Lower(text)).found
    /\ ~CapitalizedWords(text).found
    /\ \A a \in {<<"n","y","c">>, <<"s","f">>, <<"l","a">>} : ~Contains(Lower(text), a)

\* C17: extract_city returns "New York" for "Weather in New York", returns
\* "New York" for "nyc weather", and returns the default city "New York" for a
\* goal none of its rules matches.
C17_AsStated ==
    (output.done /\ output.of = "extract_city") =>
        /\ input = WeatherInNewYork => output.value = NewYork
        /\ input = NycWeather => output.value = NewYork
        /\ MatchesNoRule(input) => output.value = NewYork

Has(words) == \E w \in words : Contains(Lower(input), w)

\* C18: infer_goal_type gives a goal one of the four categories: "weather" when
\* weather, temperature or forecast occurs in it; else "search" when search, find
\* or look occurs; else "github" when issue, repo, github or pull occurs; else
\* "other".
C18_FirstCategoryWins ==
    (output.done /\ output.of = "infer_goal_type") =>
        output.value =
            IF Has({ <<"w","e","a","t","h","e","r">>,
                     <<"t","e","m","p","e","r","a","t","u","r","e">>,
                     <<"f","o","r","e","c","a","s","t">> }) THEN <<"weather">>
            ELSE IF Has({ <<"s","e","a","r","c","h">>, <<"f","i","n","d">>,
                          <<"l","o","o","k">> }) THEN <<"search">>
            ELSE IF Has({ <<"i","s","s","u","e">>, <<"r","e","p","o">>,
                          <<"g","i","t","h","u","b">>, <<"p","u","l","l">> }) THEN <<"github">>
            ELSE <<"other">>

\* a goal with a github keyword, a search keyword and a weather keyword, in
\* this order, is a weather goal
C18_Witness ==
    /\ output.done
    /\ output.of = "infer_goal_type"
    /\ input = JoinWords(<< <<"i","s","s","u","e">>, <<"f","i","n","d">>,
                            <<"w","e","a","t","h","e","r">> >>)
    /\ output.value = <<"weather">>

(***************************************************************************)
(* Properties of load_all on a file with bad lines (SpecRead).             *)
(***************************************************************************)
Unreadable == {"cut", "fields_missing", "no_json"}

KindsWritten == {input[i].kind : i \in 1..Len(input)}

RECURSIVE EntriesOf(_)
EntriesOf(lines) ==
    IF lines = <<>> THEN <<>>
    ELSE IF Head(lines).kind \in {"record", "mistyped"}
         THEN <<Head(lines).entry>> \o EntriesOf(Tail(lines))
    ELSE EntriesOf(Tail(lines))

\* C24 as stated: when a line of the file that is not blank is not a valid
\* MetricEntry record, load_all fails and returns no entry, and get_stats
\* fails with it.
C24_AsStated ==
    KindsWritten \ {"record", "blank"} # {} =>
        /\ loaded.done => ~loaded.ok /\ loaded.entries = <<>>
        /\ stats.done => ~stats.ok

\* C24 as amended: when a line that is not blank is no JSON text or no object
\* of exactly the fields of MetricEntry, load_all fails and returns no entry,
\* and get_stats fails with it; otherwise load_all returns one entry for every
\* line that is not blank, in the order of the lines, a value of another type
\* than its field included as it stands, and get_stats does not fail; of a
\* file that does not exist load_all returns the empty list.
C24_UnreadableLineFailsTheRead ==
    /\ loaded.done =>
          IF KindsWritten \cap Unreadable # {}
          THEN ~loaded.ok /\ loaded.entries = <<>>
          ELSE loaded.ok /\ loaded.entries = EntriesOf(input)
    /\ stats.done => (stats.ok <=> KindsWritten \cap Unreadable = {})
    /\ (stats.done /\ stats.ok /\ \A i \in 1..Len(input) : input[i].kind = "blank")
          => stats.value = [error |-> "No metrics available"]

\* load_all failed on a file whose first and last line are records and whose
\* second line is cut short
C24_Witness ==
    /\ Len(input) = 3
    /\ input[1].kind = "record"
    /\ input[2].kind = "cut"
    /\ input[3].kind = "record"
    /\ loaded.done
    /\ ~loaded.ok
    /\ stats.done
    /\ ~stats.ok

(***************************************************************************)
(* Properties of the sanitizing of the planner's text (SpecSanitize).      *)
(***************************************************************************)
PlanOf(text) == (CHOOSE p \in PlanJsons : p.text = text).plan

\* C22 as stated: a plan text inside a fence, with or without a language tag,
\* is sanitized to the plan text and parsed to its TaskPlan.
C22_AsStated ==
    (output.done /\ input.fence # "none") =>
        /\ output.raw_plan = input.plan
        /\ output.task_plan = [ok |-> TRUE, plan |-> PlanOf(input.plan)]

\* C22 as amended: a plan text inside a fence that carries no tag or the tag
\* json, in any letter case, is sanitized to the plan text and parsed to the
\* TaskPlan the text without a fence is parsed to; a text without a fence is
\* parsed as it is, its surrounding white space removed; behind any other tag
\* the text keeps the tag, or what of it follows a leading json, and is no plan.
C22_FenceAndJsonTagAreStripped ==
    output.done =>
        /\ input.fence = "none" =>
              /\ output.raw_plan = Strip(input.text)
              /\ output.raw_plan = input.plan
        /\ input.fence \in {"none", "bare", "json"} =>
              /\ output.raw_plan = input.plan
              /\ output.task_plan = [ok |-> TRUE, plan |-> PlanOf(input.plan)]
              /\ output.task_plan = model_validate_json(sanitize(input.plan))
        /\ input.fence = "other" =>
              /\ output.raw_plan # input.plan
              /\ output.raw_plan[Len(output.raw_plan)] = "}"
              /\ output.raw_plan[1] \in {"j", "c"}
              /\ ~output.task_plan.ok

\* a plan text behind a fence with the tag JSON and a line break, and in front
\* of a fence on a line of its own, was sanitized
C22_Witness ==
    /\ output.done
    /\ input.fence = "json"
    /\ input.text = <<" ">> \o Fence \o <<"J", "S", "O", "N", NL>> \o input.plan \o <<NL>> \o Fence \o <<NL>>
    /\ output.task_plan.ok
    /\ output.task_plan.plan.steps[1].step_id = 7

(***************************************************************************)
(* Properties of the tool invocations and their arguments (SpecTools).     *)
(***************************************************************************)
\* what the invocation inv left in the results
Stored(inv) ==
    IF inv.outcome.ok THEN PyFirst(inv.outcome.text, 2000)
    ELSE <<"E", "r", "r", "o", "r", ":", " ">> \o inv.outcome.text

ResultsOf(invs) == [i \in 1..Len(invs) |-> [name |-> invs[i].tool, value |-> Stored(invs[i])]]

\* a step that shares nothing with the steps of the plans
BlankStep == [step_id |-> 0, action |-> <<>>, tools |-> <<>>, success_criteria |-> <<>>]

\* C23: the invocations of a run and the results map are determined by the
\* order in which the plan lists its tools, the goal and what the tools do: the
\* tools invoked are the distinct tool names of the plan in the order they are
\* first listed, the arguments of each invocation are those the goal and the
\* results of the invocations before it give for a step of any other content,
\* and the results map holds what these invocations left.
C23_ArgumentsComeFromTheGoal ==
    LET order == FirstEncounters(AllTools(task_plan.steps), {})
    IN /\ Len(invoked) <= Len(order)
       /\ \A i \in 1..Len(invoked) :
             /\ invoked[i].tool = order[i]
             /\ invoked[i].args = ToolArgs(BlankStep, order[i], user_goal,
                                           ResultsOf(SubSeq(invoked, 1, i - 1)))
       /\ pc \in {"tools", "synth"} => results = ResultsOf(invoked)
       /\ pc = "synth" => Len(invoked) = Len(order)

\* the plan in its second wording, tavily_search and get_weather in step 11 and
\* create_issue in step 12, has been executed for the goal " Paris "
C23_Witness ==
    /\ pc = "synth"
    /\ user_goal = <<" ", "P", "a", "r", "i", "s", " ">>
    /\ Len(task_plan.steps) = 2
    /\ task_plan.steps[1].step_id = 11
    /\ task_plan.steps[1].action = <<"b">>
    /\ task_plan.risks = << <<"y">> >>
    /\ [i \in 1..Len(invoked) |-> invoked[i].tool] = <<"tavily_search", "get_weather", "create_issue">>
    /\ invoked[1].args.query = user_goal
    /\ invoked[2].args.city = <<"P", "a", "r", "i", "s">>
    /\ invoked[3].args.title = <<"P", "a", "r", "i", "s">>

\* the text of an outcome as the body shows it: as it is stored, or cut after
\* 2000 characters
Shown(text, cut) ==
    IF cut /\ Len(text) > 2000
    THEN SubSeq(text, 1, 2000) \o <<NL, NL, "... (truncated)">>
    ELSE text

RECURSIVE SectionsOf(_, _)
SectionsOf(invs, cut) ==
    IF invs = <<>> THEN <<>>
    ELSE <<"### Results from ", Tick, Head(invs).tool, Tick, NL, NL, Tick, Tick, Tick, NL>>
         \o Shown(Stored(Head(invs)), cut) \o <<NL, Tick, Tick, Tick, NL, NL>>
         \o SectionsOf(Tail(invs), cut)

BodyOf(i, cut) ==
    IF i = 1
    THEN <<"**Issue created via MCP Navigator**", NL, NL, "**Request:** ">> \o user_goal
    ELSE <<"## Automated Issue Summary", NL, NL, "**Generated from:** ">> \o user_goal
         \o <<NL, NL, "---", NL, NL>> \o SectionsOf(SubSeq(invoked, 1, i - 1), cut)

\* C26 as stated: the body sent to create_issue holds, for the tools invoked
\* before it in this run and in their order, the stored outcome of each, and
\* it is the default body exactly when create_issue is the first invocation.
C26_AsStated ==
    \A i \in 1..Len(invoked) :
        invoked[i].tool = "create_issue" => invoked[i].args.body = BodyOf(i, FALSE)

\* C26 as amended: the same, but of a stored outcome of more than 2000
\* characters, which only an error marker can be, the body holds the first
\* 2000 characters and a truncation marker.
C26_BodyHoldsEarlierOutcomes ==
    \A i \in 1..Len(invoked) :
        invoked[i].tool = "create_issue" => invoked[i].args.body = BodyOf(i, TRUE)

\* create_issue was invoked second, after a get_weather that failed with a
\* long message and before tavily_search
C26_Witness ==
    /\ pc = "synth"
    /\ [i \in 1..Len(invoked) |-> invoked[i].tool] = <<"get_weather", "create_issue", "tavily_search">>
    /\ ~invoked[1].outcome.ok
    /\ Len(invoked[1].outcome.text) > 2000
    /\ "tavily_search" \notin Range(invoked[2].args.body)
    /\ "get_weather" \in Range(invoked[2].args.body)

(***************************************************************************)
(* Properties of interleaved runs (SpecConcurrent).                        *)
(***************************************************************************)
RECURSIVE RecordsOf(_)
RecordsOf(order) ==
    IF order = <<>> THEN <<>>
    ELSE JsonDumps(ret[Head(order)]) \o <<NL>> \o RecordsOf(Tail(order))

\* C21: with runs interleaved and nothing but the one write of a record
\* atomic, the metrics file is, once no write is under way, the records of the
\* runs that have written theirs, each once and as the run made it, in the
\* order of the writes; and the results of a run hold what the run's own
\* invocations left, a tool is skipped only for an entry of the run's own, and
\* the arguments of a call come from the run's own goal and results, whatever
\* the other runs do.
C21_InterleavedRunsNeedNoLock ==
    /\ (\A r \in RunIds : pc[r] # "logging") =>
          /\ \E order \in Orders({r \in RunIds : pc[r] = "done"}) : file = RecordsOf(order)
          /\ Len(logged) = Cardinality({r \in RunIds : pc[r] = "done"})
          /\ load_all(file).entries = logged
    /\ \A r \in RunIds :
          /\ pc[r] \in {"tools", "synth", "logging", "done"} => results[r] = ResultsOf(invoked[r])
          /\ pc[r] \in {"synth", "logging", "done"} =>
                [i \in 1..Len(invoked[r]) |-> invoked[r][i].tool]
                   = FirstEncounters(AllTools(task_plan[r].steps), {})
          /\ \A i \in 1..Len(invoked[r]) :
                invoked[r][i].args = ToolArgs(BlankStep, invoked[r][i].tool, user_goal[r],
                                              ResultsOf(SubSeq(invoked[r], 1, i - 1)))

\* two runs have called the same tool; it failed in the first one and not in
\* the second one, and the second one wrote its record first
C21_Witness ==
    /\ pc[1] = "done"
    /\ pc[2] = "done"
    /\ file = RecordsOf(<<2, 1>>)
    /\ ~invoked[1][1].outcome.ok
    /\ invoked[2][1].outcome.ok
    /\ results[1] # results[2]

(***************************************************************************)
(* Properties of the stored tool result (SpecTruncate).                    *)
(***************************************************************************)
\* C15 as stated: a result text of more than 2000 characters is stored as its
\* first 2000 characters followed by a truncation marker; a shorter one is
\* stored as it is.
C15_AsStated ==
    output.done =>
        LET stored == DictGet(output.results, "get_weather")
        IN IF Len(input) > 2000
           THEN /\ SubSeq(stored, 1, 2000) = SubSeq(input, 1, 2000)
                /\ Len(stored) > 2000
                /\ stored # SubSeq(input, 1, Len(stored))
           ELSE stored = input

\* C15 as amended: a result text of more than 2000 characters is stored as its
\* first 2000 characters and nothing more; a result text of at most 2000
\* characters is stored as it is.
C15_StoredIsFirst2000 ==
    output.done =>
        LET stored == DictGet(output.results, "get_weather")
        IN /\ Keys(output.results) = {"get_weather"}
           /\ IF Len(input) > 2000
              THEN stored = SubSeq(input, 1, 2000)
              ELSE stored = input

\* a result of 2001 characters was stored
C15_Witness ==
    /\ output.done
    /\ Len(input) = 2001
    /\ Len(DictGet(output.results, "get_weather")) = 2000

(***************************************************************************)
(* Properties of the metrics store (SpecStore) and the trend (SpecTrend).  *)
(***************************************************************************)
\* C9: load_all on a store that started empty returns the logged entries: as
\* many, equal field for field, in the order they were logged.
C9_LoadAllReturnsTheLoggedEntries ==
    loaded.done => loaded.ok /\ loaded.entries = logged

\* three entries were logged, one with a line break in its goal, and read back
C9_Witness ==
    /\ loaded.done
    /\ Len(logged) = 3
    /\ \E i \in 1..3 : NL \in Range(logged[i].goal)
    /\ \E i \in 1..3 : logged[i].errors # <<>>

\* the aggregates of get_stats over the entries from index from on
Aggregates(es, from) ==
    LET idx == from..Len(es)
        Count(P(_)) == Cardinality({i \in idx : P(es[i])})
        Total(F(_)) == SumSeq([k \in 1..(Len(es) - from + 1) |-> F(es[from + k - 1])])
        Succ(e) == e.success_score
        PlanQ(e) == e.plan_score
        Reas(e) == e.reasoning_score
        Time(e) == e.execution_time_seconds
        Done(e) == e.completed
    IN [total_runs |-> Len(es) - from + 1,
        success_rate |-> <<Count(Done) * 100, Len(es) - from + 1>>,
        avg_success_score |-> <<Total(Succ), Len(es) - from + 1>>,
        avg_plan_score |-> <<Total(PlanQ), Len(es) - from + 1>>,
        avg_reasoning_score |-> <<Total(Reas), Len(es) - from + 1>>,
        avg_execution_time |-> <<Total(Time), Len(es) - from + 1>>,
        goal_type_breakdown |->
            [t \in {es[i].goal_type : i \in idx} |->
                Cardinality({i \in idx : es[i].goal_type = t})],
        recent_trend |-> IF Len(es) - from + 1 < 10 THEN "insufficient_data"
                         ELSE calculate_trend(SubSeq(es, from, Len(es)), 5)]

StatsAre(from) ==
    IF from > Len(logged) THEN stats.value = [error |-> "No metrics available"]
    ELSE stats.value = Aggregates(logged, from)

\* C16 as stated: with lastN given (0 or more), the aggregates are those of the
\* last min(lastN, total) entries; without lastN, those of all entries.
C16_AsStated ==
    (stats.done /\ stats.last_n.n >= 0) =>
        /\ stats.ok
        /\ IF stats.last_n.given
           THEN StatsAre(Len(logged) + 1 - (IF stats.last_n.n < Len(logged)
                                            THEN stats.last_n.n ELSE Len(logged)))
           ELSE StatsAre(1)

\* C16 as amended: with lastN of 1 or more, the aggregates are those of the last
\* min(lastN, total) entries and of no earlier entry; without lastN, or with
\* lastN = 0, they are those of all entries; with a negative lastN = -k they are
\* those of all entries but the first k.
C16_StatsOverLastN ==
    stats.done =>
        /\ stats.ok
        /\ LET n == stats.last_n.n
               total == Len(logged)
           IN IF stats.last_n.given /\ n >= 1
              THEN StatsAre(total + 1 - (IF n < total THEN n ELSE total))
              ELSE IF stats.last_n.given /\ n < 0
              THEN StatsAre((IF 0 - n < total THEN 0 - n ELSE total) + 1)
              ELSE StatsAre(1)

\* three entries are logged and get_stats(2) has been computed over the last
\* two, which differ from the first in every aggregate
C16_Witness ==
    /\ stats.done
    /\ stats.last_n = LastN(2)
    /\ Len(logged) = 3
    /\ logged[1].completed /\ ~logged[2].completed /\ ~logged[3].completed
    /\ stats.value.total_runs = 2

SuccessSum(from, to) ==
    SumSeq([i \in 1..(to - from + 1) |-> history[from + i - 1].success_score])

\* C10: with fewer than 10 entries the trend is "insufficient_data"; with 10 or
\* more it is decided by the mean of the last 5 success scores minus the mean of
\* the 5 before them (above 0.5, below -0.5, or neither), and it is the trend of
\* the last 10 entries alone.
C10_TrendOfLastTen ==
    LET n == Len(history)
    IN /\ (n >= 1 /\ n < 10) => trend = "insufficient_data"
       /\ n >= 10 =>
            LET diff5 == SuccessSum(n - 4, n) - SuccessSum(n - 9, n - 5)
            IN /\ trend = IF 2 * diff5 > 5 THEN "improving"
                          ELSE IF 2 * diff5 < 0 - 5 THEN "declining"
                          ELSE "stable"
               /\ trend = calculate_trend(PyLast(history, 10), TrendWindow)

\* eleven entries whose last five lie 0.4 above the five before them on
\* average, and whose oldest entry differs from the rest
C10_Witness ==
    /\ Len(history) = 11
    /\ SuccessSum(7, 11) - SuccessSum(2, 6) = 2
    /\ history[1].success_score = 1
    /\ trend = "stable"

====
